---- MODULE Spec2Model ----
(***************************************************************************)
(* The verification and reconciliation engine of the bKash personal        *)
(* payment channel worker: the three D1 tables, the submit-TrxID route,    *)
(* the SMS webhook, the scheduled sweep and the match rules.               *)
(*                                                                         *)
(* Timestamps are the milliseconds Date.getTime() gives; the ISO strings   *)
(* the tables store order the same way.  A nullable column holds NULL (the *)
(* empty set) or Some(v) (the singleton of v).  Text is a sequence of      *)
(* one-character strings.  Columns no code path reads after the insert     *)
(* (item_code, customer_info_json, form_data_json, ticket_choice,          *)
(* verification_method, sender_phone, updated_at and the receipt's         *)
(* created_at) are left out of the rows.  No handler and no service calls  *)
(* triggerFulfillment (services/fulfillment.ts exports it, nothing imports *)
(* it), so no action adds to fulfilled.                                    *)
(***************************************************************************)
EXTENDS Integers, Sequences, FiniteSets, TLC

VARIABLES
    receivers_table,     \* phone -> 'active' | 'disabled'
    transactions_table,  \* rows of transactions_table, in rowid order
    tracking_table,      \* rows of tracking_table, in rowid order
    now,                 \* the wall clock, ms
    units,               \* requests in flight: slot -> the handler's position and locals
    last,                \* what the handler that completed last returned or logged
    fulfilled            \* the tracking_ids triggerFulfillment was called for, in order

vars == <<receivers_table, transactions_table, tracking_table, now, units, last,
         fulfilled>>

-----------------------------------------------------------------------------
(* Bounds of the model *)

MaxSessions == 2        \* rows createTrackingSession may insert
MaxTransactions == 2    \* rows of transactions_table
MaxTime == 2            \* clock steps
MaxUnits == 2           \* requests in flight at once (interleaved specification)

HourMs == 60 * 60 * 1000
GraceMs == 15 * 60 * 1000
ClockStep == HourMs

\* Inputs of POST /track.
AmountInputs == {0, 50000}

\* Inputs of POST /bkash-personal/:id/submit-trx: the text the customer typed.
RawTrxIDs == { <<" ", "a", " ">>, <<"b">>, <<" ">> }

-----------------------------------------------------------------------------
(* Nullable columns *)

NULL == {}
Some(v) == {v}
Get(n) == CHOOSE v \in n : TRUE

-----------------------------------------------------------------------------
(* Text *)

toUpperCase(s) ==
    [i \in 1..Len(s) |->
        CASE s[i] = "a" -> "A"
          [] s[i] = "b" -> "B"
          [] OTHER -> s[i]]

isWhitespace(c) == c = " "

RECURSIVE trimStart(_)
trimStart(s) ==
    IF s # <<>> /\ isWhitespace(Head(s)) THEN trimStart(Tail(s)) ELSE s

RECURSIVE trimEnd(_)
trimEnd(s) ==
    IF s # <<>> /\ isWhitespace(s[Len(s)])
    THEN trimEnd(SubSeq(s, 1, Len(s) - 1))
    ELSE s

trim(s) == trimEnd(trimStart(s))

\* Faulty variant: the surrounding spaces are kept.
normalizeTrxID_noTrim(trxid) == toUpperCase(trxid)

\* trxid.trim().toUpperCase()
normalizeTrxID(trxid) == toUpperCase(trim(trxid))

-----------------------------------------------------------------------------
(* services/db.ts: ReceiversService *)

\* SELECT * FROM receivers_table WHERE status = 'active'
getActive(rt) == {p \in DOMAIN rt : rt[p] = "active"}

\* SELECT * FROM receivers_table WHERE phone = ?
getByPhone(rt, phone) == IF phone \in DOMAIN rt THEN Some(phone) ELSE NULL

\* Faulty variant: every phone number is taken as a receiver.
isValidReceiver_always(rt, phone) == TRUE

isValidReceiver(rt, phone) == getByPhone(rt, phone) # NULL

-----------------------------------------------------------------------------
(* services/db.ts: TransactionsService *)

\* SELECT * FROM transactions_table WHERE trxid = ?  (.first(): the first row)
getByTrxID(tt, trxid) ==
    LET hits == {i \in 1..Len(tt) : tt[i].trxid = trxid}
    IN  IF hits = {} THEN NULL
        ELSE Some(tt[CHOOSE i \in hits : \A j \in hits : i <= j])

\* SELECT * FROM transactions_table WHERE id = ?
TransactionsService_getByID(tt, id) ==
    LET hits == {i \in 1..Len(tt) : tt[i].id = id}
    IN  IF hits = {} THEN NULL
        ELSE Some(tt[CHOOSE i \in hits : \A j \in hits : i <= j])

\* Faulty variant: the column has no UNIQUE constraint.
UniqueConstraintFailed_never(tt, trxid) == FALSE

\* trxid TEXT NOT NULL UNIQUE: the INSERT of a row whose trxid is stored fails.
UniqueConstraintFailed(tt, trxid) == \E i \in 1..Len(tt) : tt[i].trxid = trxid

\* ulid(): an id no row has.
NewID(tbl) == Len(tbl) + 1

\* Faulty variant: INSERT OR REPLACE, the stored row takes the new delivery's fields.
TransactionsService_create_upsert(tt, data) ==
    IF ~UniqueConstraintFailed(tt, data.trxid)
    THEN LET transaction == [id |-> NewID(tt),
                             trxid |-> data.trxid,
                             amount_cents |-> data.amount_cents,
                             receiver_phone |-> data.receiver_phone,
                             received_at |-> data.received_at]
         IN  [table |-> Append(tt, transaction),
              transaction |-> Some(transaction),
              isNew |-> TRUE]
    ELSE LET replaced ==
                [i \in 1..Len(tt) |->
                    IF tt[i].trxid = data.trxid
                    THEN [tt[i] EXCEPT !.amount_cents = data.amount_cents,
                                       !.receiver_phone = data.receiver_phone,
                                       !.received_at = data.received_at]
                    ELSE tt[i]]
         IN  [table |-> replaced,
              transaction |-> getByTrxID(replaced, data.trxid),
              isNew |-> FALSE]

\* TransactionsService.create: the table afterwards, the row returned, isNew.
\* (A UNIQUE failure with no row to fetch is re-thrown; a stored trxid always
\* has its row, so that branch returns the table unchanged and no row.)
TransactionsService_create(tt, data) ==
    IF ~UniqueConstraintFailed(tt, data.trxid)
    THEN LET transaction == [id |-> NewID(tt),
                             trxid |-> data.trxid,
                             amount_cents |-> data.amount_cents,
                             receiver_phone |-> data.receiver_phone,
                             received_at |-> data.received_at]
         IN  [table |-> Append(tt, transaction),
              transaction |-> Some(transaction),
              isNew |-> TRUE]
    ELSE [table |-> tt,
          transaction |-> getByTrxID(tt, data.trxid),
          isNew |-> FALSE]

-----------------------------------------------------------------------------
(* services/db.ts: TrackingService *)

\* TrackingService.create: INSERT a 'pending' row that expires in one hour.
TrackingService_create(tk, data, clock) ==
    LET tracking == [tracking_id |-> NewID(tk),
                     payment_amount_cents |-> data.payment_amount_cents,
                     offered_receivers |-> data.offered_receivers,
                     user_entered_trxid |-> NULL,
                     status |-> "pending",
                     matched_transaction_id |-> NULL,
                     created_at |-> clock,
                     expires_at |-> clock + HourMs,
                     notes |-> NULL]
    IN  [table |-> Append(tk, tracking), tracking |-> tracking]

\* SELECT * FROM tracking_table WHERE tracking_id = ?
TrackingService_getByID(tk, tracking_id) ==
    LET hits == {i \in 1..Len(tk) : tk[i].tracking_id = tracking_id}
    IN  IF hits = {} THEN NULL ELSE Some(tk[CHOOSE i \in hits : TRUE])

\* Faulty variant: the UPDATE sets the status and leaves user_entered_trxid alone.
TrackingService_submitTrxID_statusOnly(tk, tracking_id, trxid) ==
    [i \in 1..Len(tk) |->
        IF tk[i].tracking_id = tracking_id
        THEN [tk[i] EXCEPT !.status = "submitted_trx"]
        ELSE tk[i]]

\* Faulty variant: the UPDATE sets user_entered_trxid and leaves the status.
TrackingService_submitTrxID_keepsStatus(tk, tracking_id, trxid) ==
    [i \in 1..Len(tk) |->
        IF tk[i].tracking_id = tracking_id
        THEN [tk[i] EXCEPT !.user_entered_trxid = Some(trxid)]
        ELSE tk[i]]

\* Faulty variant: a submission also gives the session another hour.
TrackingService_submitTrxID_renews(tk, tracking_id, trxid) ==
    [i \in 1..Len(tk) |->
        IF tk[i].tracking_id = tracking_id
        THEN [tk[i] EXCEPT !.user_entered_trxid = Some(trxid),
                           !.status = "submitted_trx",
                           !.expires_at = @ + HourMs]
        ELSE tk[i]]

\* UPDATE tracking_table SET user_entered_trxid = ?, status = 'submitted_trx'
\* WHERE tracking_id = ?
TrackingService_submitTrxID(tk, tracking_id, trxid) ==
    [i \in 1..Len(tk) |->
        IF tk[i].tracking_id = tracking_id
        THEN [tk[i] EXCEPT !.user_entered_trxid = Some(trxid),
                           !.status = "submitted_trx"]
        ELSE tk[i]]

\* options?.x || null
OrNull(options, field) ==
    IF field \in DOMAIN options THEN options[field] ELSE NULL

\* UPDATE tracking_table SET status = ?, matched_transaction_id = ?, notes = ?
\* WHERE tracking_id = ?
updateStatus(tk, tracking_id, status, options) ==
    [i \in 1..Len(tk) |->
        IF tk[i].tracking_id = tracking_id
        THEN [tk[i] EXCEPT !.status = status,
                           !.matched_transaction_id =
                                OrNull(options, "matched_transaction_id"),
                           !.notes = OrNull(options, "notes")]
        ELSE tk[i]]

\* Faulty variant: 'failed' sessions are returned too.
findByTrxID_withFailed(tk, trxid) ==
    SelectSeq(tk, LAMBDA t : /\ t.user_entered_trxid = Some(trxid)
                             /\ t.status \in {"pending", "submitted_trx",
                                               "failed"})

\* Faulty variant: the query stops at the first row (LIMIT 1).
findByTrxID_firstOnly(tk, trxid) ==
    LET rows == SelectSeq(tk, LAMBDA t :
                    /\ t.user_entered_trxid = Some(trxid)
                    /\ t.status \in {"pending", "submitted_trx"})
    IN  IF rows = <<>> THEN rows ELSE <<Head(rows)>>

\* Faulty variant: only 'pending' rows are selected.
findByTrxID_pendingOnly(tk, trxid) ==
    SelectSeq(tk, LAMBDA t : /\ t.user_entered_trxid = Some(trxid)
                             /\ t.status = "pending")

\* SELECT * FROM tracking_table WHERE user_entered_trxid = ?
\* AND status IN ('pending', 'submitted_trx')
findByTrxID(tk, trxid) ==
    SelectSeq(tk, LAMBDA t : /\ t.user_entered_trxid = Some(trxid)
                             /\ t.status \in {"pending", "submitted_trx"})

\* Faulty variant: the status is not tested.
findExpired_anyStatus(tk, clock) ==
    SelectSeq(tk, LAMBDA t : t.expires_at < clock)

\* Faulty variant: only sessions with a reference are expired.
findExpired_submittedOnly(tk, clock) ==
    SelectSeq(tk, LAMBDA t : /\ t.status = "submitted_trx"
                             /\ t.expires_at < clock)

\* Faulty variant: a session is expired at its expires_at, not after it.
findExpired_inclusive(tk, clock) ==
    SelectSeq(tk, LAMBDA t : /\ t.status \in {"pending", "submitted_trx"}
                             /\ t.expires_at <= clock)

\* SELECT * FROM tracking_table WHERE status IN ('pending', 'submitted_trx')
\* AND expires_at < now
findExpired(tk, clock) ==
    SelectSeq(tk, LAMBDA t : /\ t.status \in {"pending", "submitted_trx"}
                             /\ t.expires_at < clock)

\* Faulty variant: sessions already verified are selected again.
findPendingVerification_withVerified(tk) ==
    SelectSeq(tk, LAMBDA t : /\ t.status \in {"submitted_trx", "verified"}
                             /\ t.user_entered_trxid # NULL)

\* Faulty variant: the test on user_entered_trxid is IS NULL.
findPendingVerification_isNull(tk) ==
    SelectSeq(tk, LAMBDA t : /\ t.status = "submitted_trx"
                             /\ t.user_entered_trxid = NULL)

\* SELECT * FROM tracking_table WHERE status = 'submitted_trx'
\* AND user_entered_trxid IS NOT NULL
findPendingVerification(tk) ==
    SelectSeq(tk, LAMBDA t : /\ t.status = "submitted_trx"
                             /\ t.user_entered_trxid # NULL)

\* Faulty variant: the UPDATE is not awaited and has not been applied when the
\* retry query runs.
expireSessions_notAwaited(tk, tracking_ids) == tk

\* UPDATE tracking_table SET status = 'expired' WHERE tracking_id IN (...)
expireSessions(tk, tracking_ids) ==
    IF tracking_ids = {} THEN tk
    ELSE [i \in 1..Len(tk) |->
            IF tk[i].tracking_id \in tracking_ids
            THEN [tk[i] EXCEPT !.status = "expired"]
            ELSE tk[i]]

-----------------------------------------------------------------------------
(* services/verification.ts *)

\* A VerificationResult.  failure_reason is the text written to notes: its
\* leading words, then the numbers the template interpolates.
Result(success, status, message, matched, reason) ==
    [success |-> success, status |-> status, message |-> message,
     matched_transaction_id |-> matched, failure_reason |-> reason]

\* Rule 5's lookup: a row of findByTrxID that is 'verified' and another session.
alreadyMatched(existingMatch, tracking) ==
    {i \in 1..Len(existingMatch) :
        /\ existingMatch[i].status = "verified"
        /\ existingMatch[i].tracking_id # tracking.tracking_id}

\* Faulty variant: amounts one cent apart are taken as equal.
amountMatches_tolerant(tracking, transaction) ==
    /\ tracking.payment_amount_cents - transaction.amount_cents <= 1
    /\ transaction.amount_cents - tracking.payment_amount_cents <= 1

\* Rule 2: tracking.payment_amount_cents !== transaction.amount_cents fails.
amountMatches(tracking, transaction) ==
    tracking.payment_amount_cents = transaction.amount_cents

\* Faulty variant: a receipt on any receiver passes.
receiverOffered_anyReceiver(tracking, transaction) == TRUE

\* Rule 3: !offeredReceivers.includes(transaction.receiver_phone) fails, with
\* offeredReceivers parsed from the session's own row.
receiverOffered(tracking, transaction) ==
    transaction.receiver_phone \in tracking.offered_receivers

\* Rule 4's bounds: one hour before created_at, fifteen minutes after expires_at.
earliestAllowed(tracking) == tracking.created_at - HourMs

latestAllowed(tracking) == tracking.expires_at + GraceMs

\* Faulty variant: the bounds themselves are outside the window.
inTimeWindow_exclusive(tracking, transaction) ==
    /\ transaction.received_at > earliestAllowed(tracking)
    /\ transaction.received_at < latestAllowed(tracking)

\* Rule 4: receivedAt < earliestAllowed || receivedAt > latestAllowed fails.
inTimeWindow(tracking, transaction) ==
    ~ \/ transaction.received_at < earliestAllowed(tracking)
      \/ transaction.received_at > latestAllowed(tracking)

\* verifyPayment(tracking, transaction, db): rules 1 to 5, in order.
verifyPayment(tracking, transaction, db) ==
    LET trackingTrxID ==
            normalizeTrxID(IF tracking.user_entered_trxid = NULL THEN <<>>
                           ELSE Get(tracking.user_entered_trxid))
        transactionTrxID == normalizeTrxID(transaction.trxid)
        existingMatch == findByTrxID(db.tracking, transactionTrxID)
        dup == alreadyMatched(existingMatch, tracking)
    IN  IF trackingTrxID # transactionTrxID
        THEN Result(FALSE, "failed", "Transaction ID does not match", NULL,
                    Some(<<"TrxID mismatch">>))
        ELSE IF ~amountMatches(tracking, transaction)
        THEN Result(FALSE, "failed", "Payment amount does not match", NULL,
                    Some(<<"Amount mismatch", tracking.payment_amount_cents,
                           transaction.amount_cents>>))
        ELSE IF ~receiverOffered(tracking, transaction)
        THEN Result(FALSE, "failed", "Payment sent to wrong number", NULL,
                    Some(<<"Receiver not in offered list">>))
        ELSE IF ~inTimeWindow(tracking, transaction)
        THEN Result(FALSE, "failed", "Payment outside valid time window", NULL,
                    Some(<<"Transaction time is outside window",
                           transaction.received_at, earliestAllowed(tracking),
                           latestAllowed(tracking)>>))
        ELSE IF dup # {}
        THEN Result(FALSE, "failed",
                    "This Transaction ID has already been used", NULL,
                    Some(<<"Duplicate TrxID: already matched to session",
                           existingMatch[CHOOSE i \in dup :
                                           \A j \in dup : i <= j].tracking_id>>))
        ELSE Result(TRUE, "verified", "Payment verified successfully",
                    Some(transaction.id), NULL)

\* A statement sent to the store.
Select(table) ==
    [sql |-> "SELECT", table |-> table, tracking_id |-> 0, status |-> ""]

Update(tracking_id, status) ==
    [sql |-> "UPDATE", table |-> "tracking_table", tracking_id |-> tracking_id,
     status |-> status]

\* The store after the statements: a SELECT leaves it, an UPDATE sets the
\* status of its row.
RECURSIVE execute(_, _)
execute(db, statements) ==
    IF statements = <<>> THEN db
    ELSE LET st == Head(statements)
             after ==
                IF st.sql = "UPDATE"
                THEN [db EXCEPT !.tracking =
                        [i \in 1..Len(db.tracking) |->
                            IF db.tracking[i].tracking_id = st.tracking_id
                            THEN [db.tracking[i] EXCEPT !.status = st.status]
                            ELSE db.tracking[i]]]
                ELSE db
         IN  execute(after, Tail(statements))

\* Faulty variant: verifyPayment writes its verdict to the session itself.
verifyPayment_statements_writesVerdict(tracking, transaction, db) ==
    <<Update(tracking.tracking_id,
             verifyPayment(tracking, transaction, db).status)>>

\* The statements verifyPayment sends: db.tracking.findByTrxID of rule 5, once
\* rules 1 to 4 have passed.
verifyPayment_statements(tracking, transaction, db) ==
    IF verifyPayment(tracking, transaction, db).failure_reason # NULL
        /\ Head(Get(verifyPayment(tracking, transaction, db).failure_reason))
                # "Duplicate TrxID: already matched to session"
    THEN <<>>
    ELSE <<Select("tracking_table")>>

\* The write both callers make once verifyPayment has returned.
applyResult(tk, tracking_id, result) ==
    IF result.success
    THEN updateStatus(tk, tracking_id, "verified",
                      [matched_transaction_id |-> result.matched_transaction_id,
                       notes |-> Some(<<"Verified successfully">>)])
    ELSE IF result.status = "failed"
    THEN updateStatus(tk, tracking_id, "failed",
                      [notes |-> result.failure_reason])
    ELSE tk

\* The UPDATE statements applyResult issues.
resultWrites(tracking_id, result) ==
    IF result.success
    THEN <<[tracking_id |-> tracking_id, status |-> "verified"]>>
    ELSE IF result.status = "failed"
    THEN <<[tracking_id |-> tracking_id, status |-> "failed"]>>
    ELSE <<>>

\* Faulty variant: the 'Already verified' return is missing.
isAlreadyVerified_never(tracking) == FALSE

\* if (tracking.status === 'verified'): the session is not evaluated again.
isAlreadyVerified(tracking) == tracking.status = "verified"

\* Faulty variant: a reference with no receipt yet is treated as a failed match.
transactionNotFound_marksFailed(trackingId, db) ==
    [result |-> Result(FALSE, "failed", "Transaction not found yet", NULL,
                       Some(<<"No transaction with TrxID">>)),
     tracking |-> [i \in 1..Len(db.tracking) |->
                    IF db.tracking[i].tracking_id = trackingId
                    THEN [db.tracking[i] EXCEPT
                            !.status = "failed",
                            !.matched_transaction_id = NULL,
                            !.notes = Some(<<"No transaction with TrxID">>)]
                    ELSE db.tracking[i]],
     writes |-> <<[tracking_id |-> trackingId, status |-> "failed"]>>]

\* if (!transaction): 'pending' is returned and nothing is written.
transactionNotFound(trackingId, db) ==
    [result |-> Result(FALSE, "pending", "Transaction not found yet", NULL,
                       Some(<<"No transaction with TrxID">>)),
     tracking |-> db.tracking, writes |-> <<>>]

\* Faulty variant: the stored receipts are not consulted; the attempt is left
\* to a later ingestion.
attemptVerification_notAttempted(trackingId, db) ==
    transactionNotFound(trackingId, db)

\* attemptVerification(trackingId, db): the result, the tracking table after
\* and the UPDATE statements issued.
attemptVerification(trackingId, db) ==
    LET found == TrackingService_getByID(db.tracking, trackingId)
    IN  IF found = NULL
        THEN [result |-> Result(FALSE, "failed", "Tracking session not found",
                                NULL, Some(<<"No tracking session with ID">>)),
              tracking |-> db.tracking, writes |-> <<>>]
        ELSE
        LET tracking == Get(found)
        IN  IF tracking.user_entered_trxid = NULL
                \/ Get(tracking.user_entered_trxid) = <<>>
            THEN [result |-> Result(FALSE, "pending",
                                    "No Transaction ID submitted yet", NULL,
                                    Some(<<"user_entered_trxid is null">>)),
                  tracking |-> db.tracking, writes |-> <<>>]
            ELSE IF isAlreadyVerified(tracking)
            THEN [result |-> Result(TRUE, "verified", "Already verified",
                                    tracking.matched_transaction_id, NULL),
                  tracking |-> db.tracking, writes |-> <<>>]
            ELSE
            LET normalizedTrxID ==
                    normalizeTrxID(Get(tracking.user_entered_trxid))
                transaction == getByTrxID(db.transactions, normalizedTrxID)
            IN  IF transaction = NULL
                THEN transactionNotFound(trackingId, db)
                ELSE
                LET result == verifyPayment(tracking, Get(transaction), db)
                IN  [result |-> result,
                     tracking |-> applyResult(db.tracking, trackingId, result),
                     writes |-> resultWrites(trackingId, result)]

\* The loop of verifyIncomingTransaction over the sessions read before it.
RECURSIVE verifyEach(_, _, _, _, _)
verifyEach(pendingSessions, transaction, db, results, writes) ==
    IF pendingSessions = <<>>
    THEN [results |-> results, tracking |-> db.tracking, writes |-> writes]
    ELSE
    LET tracking == Head(pendingSessions)
        result == verifyPayment(tracking, transaction, db)
        after == applyResult(db.tracking, tracking.tracking_id, result)
    IN  verifyEach(Tail(pendingSessions), transaction,
                   [db EXCEPT !.tracking = after], Append(results, result),
                   writes \o resultWrites(tracking.tracking_id, result))

\* verifyIncomingTransaction(transactionId, db): the results, the tracking table
\* after and the UPDATE statements issued.
verifyIncomingTransaction(transactionId, db) ==
    LET found == TransactionsService_getByID(db.transactions, transactionId)
    IN  IF found = NULL
        THEN [results |-> <<Result(FALSE, "failed", "Transaction not found",
                                   NULL, Some(<<"No transaction with ID">>))>>,
              tracking |-> db.tracking, writes |-> <<>>]
        ELSE
        LET transaction == Get(found)
            normalizedTrxID == normalizeTrxID(transaction.trxid)
            pendingSessions == findByTrxID(db.tracking, normalizedTrxID)
        IN  IF Len(pendingSessions) = 0
            THEN [results |-> <<Result(FALSE, "pending",
                                       "No matching tracking sessions found",
                                       NULL,
                                       Some(<<"No pending sessions with TrxID">>))>>,
                  tracking |-> db.tracking, writes |-> <<>>]
            ELSE verifyEach(pendingSessions, transaction, db, <<>>, <<>>)

-----------------------------------------------------------------------------
(* services/smsParser.ts: parseBkashSMS *)

\* An SMS is what its four patterns can capture: the amount "Tk <taka>.<paisa>",
\* the sender, the TrxID text and the time "at DD/MM/YYYY HH:mm" (to the minute);
\* a part the text lacks is NULL.
MinuteMs == 60 * 1000

\* parseAmount: the amount in cents, NULL when absent or not above zero.
parseAmount(sms) ==
    IF sms.amount = NULL THEN NULL
    ELSE LET a == Get(sms.amount)
             amountCents == a[1] * 100 + a[2]
         IN  IF amountCents <= 0 THEN NULL ELSE Some(amountCents)

parseSenderPhone(sms) == sms.sender

\* parseTrxID: match[1].trim().toUpperCase(), NULL when absent or empty.
parseTrxID(sms) ==
    IF sms.trxid = NULL THEN NULL
    ELSE LET trxid == toUpperCase(trim(Get(sms.trxid)))
         IN  IF Len(trxid) = 0 THEN NULL ELSE Some(trxid)

\* parseTimestamp: the time as a Date, seconds 0.
parseTimestamp(sms) ==
    IF sms.timestamp = NULL THEN NULL
    ELSE Some(Get(sms.timestamp) * MinuteMs)

\* parseBkashSMS: data is NULL when a part failed to parse.
parseBkashSMS(rawSMS) ==
    IF rawSMS = NULL THEN [success |-> FALSE, data |-> NULL]
    ELSE
    LET sms == Get(rawSMS)
    IN  IF \/ parseAmount(sms) = NULL
           \/ parseSenderPhone(sms) = NULL
           \/ parseTrxID(sms) = NULL
           \/ parseTimestamp(sms) = NULL
        THEN [success |-> FALSE, data |-> NULL]
        ELSE [success |-> TRUE,
              data |-> Some([amount_cents |-> Get(parseAmount(sms)),
                             trxid |-> Get(parseTrxID(sms)),
                             sender_phone |-> Get(parseSenderPhone(sms)),
                             received_at |-> Get(parseTimestamp(sms))])]

-----------------------------------------------------------------------------
(* routes: what each handler does to the tables, and what it answers *)

DB == [tracking |-> tracking_table, transactions |-> transactions_table]

\* POST /track
createTrackingSession_run(body, rt, db, clock) ==
    IF body.payment_amount_cents <= 0
    THEN [tracking |-> db.tracking,
          response |-> [op |-> "track", code |-> 400, tracking_id |-> NULL]]
    ELSE IF getActive(rt) = {}
    THEN [tracking |-> db.tracking,
          response |-> [op |-> "track", code |-> 503, tracking_id |-> NULL]]
    ELSE
    LET c == TrackingService_create(
                db.tracking,
                [payment_amount_cents |-> body.payment_amount_cents,
                 offered_receivers |-> getActive(rt)],
                clock)
    IN  [tracking |-> c.table,
         response |-> [op |-> "track", code |-> 201,
                       tracking_id |-> Some(c.tracking.tracking_id)]]

\* Faulty variant: the route never finds a session expired.
sessionExpired_never(clock, tracking) == FALSE

\* if (now > expiresAt)
sessionExpired(clock, tracking) == clock > tracking.expires_at

\* The JSON bodies of the submit route.
ErrorBody(error) == [error |-> <<error>>]

ExpiredBody ==
    [error |-> <<"This payment session has expired">>, status |-> "expired"]

AlreadyVerifiedBody ==
    [status |-> "verified",
     message |-> <<"This payment has already been verified">>]

AlreadySubmittedBody ==
    [status |-> "submitted",
     message |-> <<"Your Transaction ID has already been submitted">>]

VerifiedBody ==
    [status |-> "verified", message |-> <<"Payment verified!">>]

SubmittedBody ==
    [status |-> "submitted",
     message |-> <<"Thank you! Your Transaction ID has been submitted">>]

\* Faulty variant: a rejected submit is answered with the rule that failed.
submitBody_leaksReason(verificationResult) ==
    IF verificationResult.success THEN VerifiedBody
    ELSE IF verificationResult.failure_reason # NULL
    THEN [status |-> "submitted",
          message |-> Get(verificationResult.failure_reason)]
    ELSE SubmittedBody

\* The body after attemptVerification: verificationResult is logged, and only
\* its success decides the answer.
submitBody(verificationResult) ==
    IF verificationResult.success THEN VerifiedBody ELSE SubmittedBody

\* A response of the submit route: the HTTP code and body, and beside them
\* the status of the VerificationResult the route logged ("none": no attempt).
SubmitResponse(tracking_id, code, body, verification) ==
    [op |-> "submit", tracking_id |-> tracking_id, code |-> code,
     status |-> IF "status" \in DOMAIN body THEN body.status ELSE "error",
     body |-> body, verification |-> verification]

\* POST /bkash-personal/:trackingId/submit-trx
submitTrxID_run(tracking_id, trxid, db, clock) ==
    LET normalizedTrxID == normalizeTrxID(trxid)
        found == TrackingService_getByID(db.tracking, tracking_id)
    IN  IF trxid = <<>> \/ normalizedTrxID = <<>>
        THEN [tracking |-> db.tracking,
              response |->
                SubmitResponse(tracking_id, 400,
                               ErrorBody(IF trxid = <<>>
                                         THEN "TrxID is required"
                                         ELSE "Invalid TrxID format"),
                               "none")]
        ELSE IF found = NULL
        THEN [tracking |-> db.tracking,
              response |->
                SubmitResponse(tracking_id, 404,
                               ErrorBody("Payment session not found"), "none")]
        ELSE
        LET tracking == Get(found)
        IN  IF sessionExpired(clock, tracking)
            THEN [tracking |-> db.tracking,
                  response |->
                    SubmitResponse(tracking_id, 410, ExpiredBody, "none")]
            ELSE IF tracking.status = "verified"
            THEN [tracking |-> db.tracking,
                  response |->
                    SubmitResponse(tracking_id, 200, AlreadyVerifiedBody, "none")]
            ELSE IF /\ tracking.user_entered_trxid # NULL
                    /\ Get(tracking.user_entered_trxid) # <<>>
                    /\ tracking.status = "submitted_trx"
            THEN [tracking |-> db.tracking,
                  response |->
                    SubmitResponse(tracking_id, 200, AlreadySubmittedBody, "none")]
            ELSE
            LET written == TrackingService_submitTrxID(db.tracking, tracking_id,
                                                       normalizedTrxID)
                av == attemptVerification(tracking_id,
                                          [db EXCEPT !.tracking = written])
            IN  [tracking |-> av.tracking,
                 response |->
                    SubmitResponse(tracking_id, 200, submitBody(av.result),
                                   av.result.status)]

\* A response of the webhook, and beside it the request it answers.
WebhookResponse(request, code, is_new, transaction, parsed_data, attempted, verified) ==
    [op |-> "webhook", request |-> request, code |-> code, is_new |-> is_new,
     transaction |-> transaction, parsed_data |-> parsed_data,
     attempted |-> attempted, verified |-> verified]

CountSuccess(results) == Cardinality({i \in 1..Len(results) : results[i].success})

\* Faulty variant: only a new receipt is verified against the sessions.
verificationResults_newOnly(c, db) ==
    IF c.isNew
    THEN verifyIncomingTransaction(Get(c.transaction).id,
                                   [db EXCEPT !.transactions = c.table])
    ELSE [results |-> <<>>, tracking |-> db.tracking, writes |-> <<>>]

\* const verificationResults = await verifyIncomingTransaction(transaction.id,
\* db): for the row create returned, new or already stored.
verificationResults(c, db) ==
    verifyIncomingTransaction(Get(c.transaction).id,
                              [db EXCEPT !.transactions = c.table])

\* POST /webhooks/sms
handleWebhookSMS_run(body, rt, db) ==
    LET rejected == [tracking |-> db.tracking, transactions |-> db.transactions,
                     response |->
                        WebhookResponse(body, 400, FALSE, NULL, NULL, 0, 0)]
        parseResult == parseBkashSMS(body.raw_sms)
    IN  IF body.raw_sms = NULL \/ body.receiver_phone = ""
        THEN rejected
        ELSE IF ~isValidReceiver(rt, body.receiver_phone)
        THEN rejected
        ELSE IF ~parseResult.success \/ parseResult.data = NULL
        THEN rejected
        ELSE
        LET parsed == Get(parseResult.data)
        IN  IF parsed.amount_cents <= 0
            THEN rejected
            ELSE
            LET c == TransactionsService_create(
                        db.transactions,
                        [trxid |-> parsed.trxid,
                         receiver_phone |-> body.receiver_phone,
                         amount_cents |-> parsed.amount_cents,
                         received_at |-> parsed.received_at])
                v == verificationResults(c, db)
            IN  [tracking |-> v.tracking,
                 transactions |-> c.table,
                 response |->
                    WebhookResponse(body, IF c.isNew THEN 201 ELSE 200, c.isNew,
                                    c.transaction, parseResult.data,
                                    Len(v.results),
                                    CountSuccess(v.results))]

-----------------------------------------------------------------------------
(* scheduled/cron.ts *)

\* The catch inside the retry loop: the error is logged, the session counted as
\* failed, and the loop goes on with the sessions after it.
\* Faulty variant: the error ends the loop.
caught_abortsLoop(pendingSessions) == <<>>

caught(pendingSessions) == Tail(pendingSessions)

\* Faulty variant: the catch logs the error and counts nothing.
countThrown_notCounted(counts) == counts

\* failedCount++ in the catch of the retry loop.
countThrown(counts) == [counts EXCEPT !.failed = @ + 1]

\* The retry loop of scheduledHandler over the sessions read before it.
\* throwing: the sessions for which attemptVerification throws in this sweep
\* (a statement that throws has written nothing).
RECURSIVE retryEach(_, _, _, _)
retryEach(pendingSessions, db, counts, throwing) ==
    IF pendingSessions = <<>>
    THEN [counts |-> counts, tracking |-> db.tracking, errored |-> {}]
    ELSE
    LET session == Head(pendingSessions)
        av == attemptVerification(session.tracking_id, db)
        counted ==
            IF av.result.success
            THEN [counts EXCEPT !.verified = @ + 1]
            ELSE IF av.result.status = "failed"
            THEN [counts EXCEPT !.failed = @ + 1]
            ELSE [counts EXCEPT !.still_pending = @ + 1]
    IN  IF session.tracking_id \in throwing
        THEN LET r == retryEach(caught(pendingSessions), db,
                                countThrown(counts), throwing)
             IN  [r EXCEPT !.errored = @ \cup {session.tracking_id}]
        ELSE retryEach(Tail(pendingSessions),
                       [db EXCEPT !.tracking = av.tracking], counted, throwing)

TrackingIds(sessions) == {sessions[i].tracking_id : i \in 1..Len(sessions)}

\* scheduledHandler: expire, then retry.
scheduledHandler_run(db, clock, throwing) ==
    LET expiredSessions == findExpired(db.tracking, clock)
        afterExpiry ==
            IF Len(expiredSessions) > 0
            THEN expireSessions(db.tracking, TrackingIds(expiredSessions))
            ELSE db.tracking
        pendingSessions == findPendingVerification(afterExpiry)
        r == retryEach(pendingSessions, [db EXCEPT !.tracking = afterExpiry],
                       [verified |-> 0, failed |-> 0, still_pending |-> 0],
                       throwing)
    IN  [tracking |-> r.tracking,
         response |-> [op |-> "cron",
                       expired |-> Len(expiredSessions),
                       verified |-> r.counts.verified,
                       failed |-> r.counts.failed,
                       still_pending |-> r.counts.still_pending,
                       total_processed |-> Len(pendingSessions),
                       errored |-> r.errored]]

-----------------------------------------------------------------------------
(* Inputs *)

\* SMS texts the gateway may post.
SMS(taka, paisa, trxid, minute) ==
    [amount |-> Some(<<taka, paisa>>), sender |-> Some("01533817247"),
     trxid |-> trxid, timestamp |-> Some(minute)]

GoodA == SMS(500, 0, Some(<<"A">>), 0)          \* Tk 500.00, TrxID A, minute 0
OtherAmountA == SMS(500, 1, Some(<<"A">>), 0)   \* Tk 500.01
LateA == SMS(500, 0, Some(<<"A">>), 76)         \* at minute 76
GoodB == SMS(500, 0, Some(<<"b">>), 0)          \* TrxID b
GraceA == SMS(500, 0, Some(<<"A">>), 70)        \* at minute 70, in the grace
ZeroAmount == SMS(0, 0, Some(<<"A">>), 0)       \* Tk 0.00
NoTrxID == SMS(500, 0, NULL, 0)                 \* no "TrxID ..." in the text
NoAmount == [GoodA EXCEPT !.amount = NULL]      \* no "Tk ..." in the text
NoSender == [GoodA EXCEPT !.sender = NULL]      \* no "from ..." in the text
NoTimestamp == [GoodA EXCEPT !.timestamp = NULL]    \* no "at ..." in the text

WebhookBodies ==
    {[raw_sms |-> Some(sms), receiver_phone |-> "R1"] :
        sms \in {GoodA, OtherAmountA, LateA, GoodB, ZeroAmount, NoTrxID,
                 NoAmount, NoSender, NoTimestamp}}
    \cup {[raw_sms |-> Some(GoodA), receiver_phone |-> ph] : ph \in {"R2", "RX"}}
    \cup {[raw_sms |-> NULL, receiver_phone |-> "R1"],
          [raw_sms |-> Some(GoodA), receiver_phone |-> ""]}

TrackBodies == {[payment_amount_cents |-> a] : a \in AmountInputs}

-----------------------------------------------------------------------------
(* The state machine: each request runs to completion *)

Idle == [pc |-> "idle"]

NoResponse == [op |-> "none"]

Init ==
    /\ receivers_table = [p \in {"R1", "R2"} |->
                            IF p = "R1" THEN "active" ELSE "disabled"]
    /\ transactions_table = <<>>
    /\ tracking_table = <<>>
    /\ now = 0
    /\ units = [u \in 1..MaxUnits |-> Idle]
    /\ last = NoResponse
    /\ fulfilled = <<>>

createTrackingSession(body) ==
    LET r == createTrackingSession_run(body, receivers_table, DB, now)
    IN  /\ Len(tracking_table) < MaxSessions
        /\ tracking_table' = r.tracking
        /\ last' = r.response
        /\ UNCHANGED <<receivers_table, fulfilled, transactions_table, now, units>>

submitTrxID(tracking_id, trxid) ==
    LET r == submitTrxID_run(tracking_id, trxid, DB, now)
    IN  /\ tracking_table' = r.tracking
        /\ last' = r.response
        /\ UNCHANGED <<receivers_table, fulfilled, transactions_table, now, units>>

handleWebhookSMS(body) ==
    LET r == handleWebhookSMS_run(body, receivers_table, DB)
    IN  /\ Len(r.transactions) <= MaxTransactions
        /\ tracking_table' = r.tracking
        /\ transactions_table' = r.transactions
        /\ last' = r.response
        /\ UNCHANGED <<receivers_table, fulfilled, now, units>>

scheduledHandler ==
    LET r == scheduledHandler_run(DB, now, {})
    IN  /\ tracking_table' = r.tracking
        /\ last' = r.response
        /\ UNCHANGED <<receivers_table, fulfilled, transactions_table, now, units>>

\* Time passes.
Tick ==
    /\ now < MaxTime * ClockStep
    /\ now' = now + ClockStep
    /\ last' = NoResponse
    /\ UNCHANGED <<receivers_table, fulfilled, transactions_table, tracking_table, units>>

Next ==
    \/ \E body \in TrackBodies : createTrackingSession(body)
    \/ \E id \in 1..MaxSessions, trxid \in RawTrxIDs : submitTrxID(id, trxid)
    \/ \E body \in WebhookBodies : handleWebhookSMS(body)
    \/ scheduledHandler
    \/ Tick

Spec == Init /\ [][Next]_vars

-----------------------------------------------------------------------------
(* The interleaved state machine: requests and the sweep run concurrently,   *)
(* and each awaited D1 statement (or run of consecutive reads) is one step.  *)

\* Inputs of the interleaved specification.
ConcRawTrxIDs == { <<" ", "a", " ">>, <<" ">> }

ConcWebhookBodies ==
    {[raw_sms |-> Some(sms), receiver_phone |-> "R1"] :
        sms \in {GoodA, OtherAmountA}}

\* A request takes the first free slot.
FreeSlot(u) ==
    /\ units[u] = Idle
    /\ \A v \in 1..(u - 1) : units[v] # Idle

At(u, pc) == units[u].pc = pc

Goto(u, unit) == units' = [units EXCEPT ![u] = unit]

Finish(u, response) ==
    /\ units' = [units EXCEPT ![u] = Idle]
    /\ last' = response

\* submit-trx, up to the checks on the row read by getByID.
submit_getByID(u, tracking_id, trxid) ==
    LET normalizedTrxID == normalizeTrxID(trxid)
        found == TrackingService_getByID(tracking_table, tracking_id)
        early(code, body) ==
            /\ Finish(u, SubmitResponse(tracking_id, code, body, "none"))
            /\ UNCHANGED <<receivers_table, fulfilled, transactions_table, tracking_table,
                           now>>
    IN  /\ FreeSlot(u)
        /\ IF trxid = <<>> \/ normalizedTrxID = <<>>
           THEN early(400, ErrorBody(IF trxid = <<>> THEN "TrxID is required"
                                     ELSE "Invalid TrxID format"))
           ELSE IF found = NULL
           THEN early(404, ErrorBody("Payment session not found"))
           ELSE IF sessionExpired(now, Get(found))
           THEN early(410, ExpiredBody)
           ELSE IF Get(found).status = "verified"
           THEN early(200, AlreadyVerifiedBody)
           ELSE IF /\ Get(found).user_entered_trxid # NULL
                   /\ Get(Get(found).user_entered_trxid) # <<>>
                   /\ Get(found).status = "submitted_trx"
           THEN early(200, AlreadySubmittedBody)
           ELSE /\ Goto(u, [pc |-> "submit_submitTrxID",
                            tracking_id |-> tracking_id,
                            trxid |-> normalizedTrxID])
                /\ UNCHANGED <<receivers_table, fulfilled, transactions_table,
                               tracking_table, now, last>>

\* await db.tracking.submitTrxID(tracking_id, normalizedTrxID)
submit_submitTrxID(u) ==
    /\ At(u, "submit_submitTrxID")
    /\ tracking_table' = TrackingService_submitTrxID(
                            tracking_table, units[u].tracking_id, units[u].trxid)
    /\ Goto(u, [units[u] EXCEPT !.pc = "submit_attemptVerification"])
    /\ UNCHANGED <<receivers_table, fulfilled, transactions_table, now, last>>

SubmitDone(u, result) ==
    Finish(u, SubmitResponse(units[u].tracking_id, 200, submitBody(result),
                             result.status))

\* attemptVerification, up to the value verifyPayment returns.
submit_attemptVerification(u) ==
    LET av == attemptVerification(units[u].tracking_id, DB)
    IN  /\ At(u, "submit_attemptVerification")
        /\ IF av.writes = <<>>
           THEN SubmitDone(u, av.result)
           ELSE /\ Goto(u, [pc |-> "submit_updateStatus",
                            tracking_id |-> units[u].tracking_id,
                            result |-> av.result])
                /\ UNCHANGED last
        /\ UNCHANGED <<receivers_table, fulfilled, transactions_table, tracking_table, now>>

\* await db.tracking.updateStatus(...) with the result, and the response.
submit_updateStatus(u) ==
    /\ At(u, "submit_updateStatus")
    /\ tracking_table' = applyResult(tracking_table, units[u].tracking_id,
                                     units[u].result)
    /\ SubmitDone(u, units[u].result)
    /\ UNCHANGED <<receivers_table, fulfilled, transactions_table, now>>

\* The webhook, up to db.transactions.create: the handler's checks and its
\* INSERT, before any session is read.
webhook_create(u, body) ==
    LET r == handleWebhookSMS_run(
                body, receivers_table,
                [tracking |-> <<>>, transactions |-> transactions_table])
    IN  /\ FreeSlot(u)
        /\ Len(r.transactions) <= MaxTransactions
        /\ transactions_table' = r.transactions
        /\ IF r.response.transaction = NULL
           THEN Finish(u, r.response)
           ELSE /\ Goto(u, [pc |-> "webhook_findByTrxID",
                            response |-> r.response])
                /\ UNCHANGED last
        /\ UNCHANGED <<receivers_table, fulfilled, tracking_table, now>>

\* verifyIncomingTransaction, up to the sessions findByTrxID returns.
webhook_findByTrxID(u) ==
    LET transaction == Get(units[u].response.transaction)
        pendingSessions ==
            findByTrxID(tracking_table, normalizeTrxID(transaction.trxid))
    IN  /\ At(u, "webhook_findByTrxID")
        /\ IF Len(pendingSessions) = 0
           THEN Finish(u, units[u].response)
           ELSE /\ Goto(u, [pc |-> "webhook_verifyPayment",
                            response |-> [units[u].response EXCEPT
                                            !.attempted = 0],
                            pendingSessions |-> pendingSessions])
                /\ UNCHANGED last
        /\ UNCHANGED <<receivers_table, fulfilled, transactions_table, tracking_table, now>>

\* One turn of the loop: verifyPayment on the session as it was read, and the
\* updateStatus that follows.
webhook_verifyPayment(u) ==
    LET tracking == Head(units[u].pendingSessions)
        transaction == Get(units[u].response.transaction)
        result == verifyPayment(tracking, transaction, DB)
        response == [units[u].response EXCEPT
                        !.attempted = @ + 1,
                        !.verified = @ + (IF result.success THEN 1 ELSE 0)]
    IN  /\ At(u, "webhook_verifyPayment")
        /\ tracking_table' = applyResult(tracking_table, tracking.tracking_id,
                                         result)
        /\ IF Tail(units[u].pendingSessions) = <<>>
           THEN Finish(u, response)
           ELSE /\ Goto(u, [pc |-> "webhook_verifyPayment",
                            response |-> response,
                            pendingSessions |-> Tail(units[u].pendingSessions)])
                /\ UNCHANGED last
        /\ UNCHANGED <<receivers_table, fulfilled, transactions_table, now>>

CronResponse(expired, counts, total_processed) ==
    [op |-> "cron", expired |-> expired, verified |-> counts.verified,
     failed |-> counts.failed, still_pending |-> counts.still_pending,
     total_processed |-> total_processed, errored |-> {}]

\* The sweep, up to the sessions findExpired returns.
cron_findExpired(u) ==
    /\ FreeSlot(u)
    /\ Goto(u, [pc |-> IF Len(findExpired(tracking_table, now)) > 0
                       THEN "cron_expireSessions"
                       ELSE "cron_findPendingVerification",
                expiredSessions |-> findExpired(tracking_table, now)])
    /\ UNCHANGED <<receivers_table, fulfilled, transactions_table, tracking_table, now,
                   last>>

\* await db.tracking.expireSessions(expiredIds)
cron_expireSessions(u) ==
    /\ At(u, "cron_expireSessions")
    /\ tracking_table' = expireSessions(tracking_table,
                                        TrackingIds(units[u].expiredSessions))
    /\ Goto(u, [units[u] EXCEPT !.pc = "cron_findPendingVerification"])
    /\ UNCHANGED <<receivers_table, fulfilled, transactions_table, now, last>>

\* What the sweep does once a turn of its loop has its result.
CronCounted(u, result) ==
    LET counts == units[u].counts
        counted ==
            IF result.success THEN [counts EXCEPT !.verified = @ + 1]
            ELSE IF result.status = "failed"
            THEN [counts EXCEPT !.failed = @ + 1]
            ELSE [counts EXCEPT !.still_pending = @ + 1]
        rest == Tail(units[u].pendingSessions)
    IN  IF rest = <<>>
        THEN Finish(u, CronResponse(units[u].expired, counted,
                                    units[u].total_processed))
        ELSE /\ Goto(u, [pc |-> "cron_attemptVerification",
                         expired |-> units[u].expired,
                         total_processed |-> units[u].total_processed,
                         pendingSessions |-> rest,
                         counts |-> counted])
             /\ UNCHANGED last

\* const pendingSessions = await db.tracking.findPendingVerification()
cron_findPendingVerification(u) ==
    LET pendingSessions == findPendingVerification(tracking_table)
        zero == [verified |-> 0, failed |-> 0, still_pending |-> 0]
        expired == Len(units[u].expiredSessions)
    IN  /\ At(u, "cron_findPendingVerification")
        /\ IF pendingSessions = <<>>
           THEN Finish(u, CronResponse(expired, zero, 0))
           ELSE /\ Goto(u, [pc |-> "cron_attemptVerification",
                            expired |-> expired,
                            total_processed |-> Len(pendingSessions),
                            pendingSessions |-> pendingSessions,
                            counts |-> zero])
                /\ UNCHANGED last
        /\ UNCHANGED <<receivers_table, fulfilled, transactions_table, tracking_table, now>>

\* attemptVerification for the next session, up to the value verifyPayment
\* returns.
cron_attemptVerification(u) ==
    LET session == Head(units[u].pendingSessions)
        av == attemptVerification(session.tracking_id, DB)
    IN  /\ At(u, "cron_attemptVerification")
        /\ IF av.writes = <<>>
           THEN CronCounted(u, av.result)
           ELSE /\ Goto(u, [pc |-> "cron_updateStatus",
                            expired |-> units[u].expired,
                            total_processed |-> units[u].total_processed,
                            pendingSessions |-> units[u].pendingSessions,
                            counts |-> units[u].counts,
                            result |-> av.result])
                /\ UNCHANGED last
        /\ UNCHANGED <<receivers_table, fulfilled, transactions_table, tracking_table, now>>

\* await db.tracking.updateStatus(...) with the result.
cron_updateStatus(u) ==
    /\ At(u, "cron_updateStatus")
    /\ tracking_table' =
            applyResult(tracking_table,
                        Head(units[u].pendingSessions).tracking_id,
                        units[u].result)
    /\ CronCounted(u, units[u].result)
    /\ UNCHANGED <<receivers_table, fulfilled, transactions_table, now>>

ConcNext ==
    \/ \E body \in TrackBodies : createTrackingSession(body)
    \/ \E u \in 1..MaxUnits, id \in 1..MaxSessions, trxid \in ConcRawTrxIDs :
            submit_getByID(u, id, trxid)
    \/ \E u \in 1..MaxUnits : submit_submitTrxID(u)
    \/ \E u \in 1..MaxUnits : submit_attemptVerification(u)
    \/ \E u \in 1..MaxUnits : submit_updateStatus(u)
    \/ \E u \in 1..MaxUnits, body \in ConcWebhookBodies : webhook_create(u, body)
    \/ \E u \in 1..MaxUnits : webhook_findByTrxID(u)
    \/ \E u \in 1..MaxUnits : webhook_verifyPayment(u)
    \/ \E u \in 1..MaxUnits : cron_findExpired(u)
    \/ \E u \in 1..MaxUnits : cron_expireSessions(u)
    \/ \E u \in 1..MaxUnits : cron_findPendingVerification(u)
    \/ \E u \in 1..MaxUnits : cron_attemptVerification(u)
    \/ \E u \in 1..MaxUnits : cron_updateStatus(u)
    \/ Tick

ConcSpec == Init /\ [][ConcNext]_vars

\* The interleaved submits and webhooks alone, with two references to submit.
RaceRawTrxIDs == { <<" ", "a", " ">>, <<"b">> }

RaceNext ==
    \/ \E body \in TrackBodies : createTrackingSession(body)
    \/ \E u \in 1..MaxUnits, id \in 1..MaxSessions, trxid \in RaceRawTrxIDs :
            submit_getByID(u, id, trxid)
    \/ \E u \in 1..MaxUnits : submit_submitTrxID(u)
    \/ \E u \in 1..MaxUnits : submit_attemptVerification(u)
    \/ \E u \in 1..MaxUnits : submit_updateStatus(u)
    \/ \E u \in 1..MaxUnits, body \in ConcWebhookBodies : webhook_create(u, body)
    \/ \E u \in 1..MaxUnits : webhook_findByTrxID(u)
    \/ \E u \in 1..MaxUnits : webhook_verifyPayment(u)

RaceSpec == Init /\ [][RaceNext]_vars

-----------------------------------------------------------------------------
(* The state machine with failing store statements, on the inputs of the
   interleaved machine: a handler's awaited statement may throw, and the
   handler's catch answers for it.  A statement that throws has written
   nothing; the statements before it have. *)

\* The submit route when attemptVerification throws after the route's own
\* write: the catch of the route answers 500 and the reference stays stored.
submitTrxID_throws(tracking_id, trxid) ==
    LET r == submitTrxID_run(tracking_id, trxid, DB, now)
        written == TrackingService_submitTrxID(tracking_table, tracking_id,
                                               normalizeTrxID(trxid))
    IN  /\ r.response.verification # "none"
        /\ tracking_table' = written
        /\ last' = SubmitResponse(
                        tracking_id, 500,
                        [error |-> <<"An error occurred while submitting your Transaction ID">>,
                         message |-> <<"error.message">>],
                        "none")
        /\ UNCHANGED <<receivers_table, fulfilled, transactions_table, now, units>>

\* The webhook handler when verifyIncomingTransaction throws before its first
\* verdict: the receipt is stored, the catch of the handler answers 500.
handleWebhookSMS_throws(body) ==
    LET r == handleWebhookSMS_run(body, receivers_table,
                                  [DB EXCEPT !.tracking = <<>>])
    IN  /\ r.response.transaction # NULL
        /\ Len(r.transactions) <= MaxTransactions
        /\ transactions_table' = r.transactions
        /\ last' = WebhookResponse(body, 500, FALSE, NULL, NULL, 0, 0)
        /\ UNCHANGED <<receivers_table, fulfilled, tracking_table, now, units>>

\* A sweep in which attemptVerification throws for the sessions in throwing.
scheduledHandler_throws(throwing) ==
    LET r == scheduledHandler_run(DB, now, throwing)
    IN  /\ r.response.errored # {}
        /\ tracking_table' = r.tracking
        /\ last' = r.response
        /\ UNCHANGED <<receivers_table, fulfilled, transactions_table, now, units>>

\* The webhook inputs of these runs: also a receipt dated after expires_at,
\* inside the fifteen minutes of grace.
FaultWebhookBodies ==
    ConcWebhookBodies \cup {[raw_sms |-> Some(GraceA), receiver_phone |-> "R1"]}

FaultNext ==
    \/ \E body \in TrackBodies : createTrackingSession(body)
    \/ \E id \in 1..MaxSessions, trxid \in ConcRawTrxIDs : submitTrxID(id, trxid)
    \/ \E id \in 1..MaxSessions, trxid \in ConcRawTrxIDs :
            submitTrxID_throws(id, trxid)
    \/ \E body \in FaultWebhookBodies : handleWebhookSMS(body)
    \/ \E body \in FaultWebhookBodies : handleWebhookSMS_throws(body)
    \/ scheduledHandler
    \/ \E throwing \in SUBSET (1..MaxSessions) : scheduledHandler_throws(throwing)
    \/ Tick

FaultSpec == Init /\ [][FaultNext]_vars

\* A sweep now would change no row and repeat the report in last.
SweepChangesNothing ==
    LET r == scheduledHandler_run(DB, now, {})
    IN  r.tracking = tracking_table /\ r.response = last

\* Weak fairness of scheduledHandler, with its enabling condition written out:
\* again and again the sweep runs, or has nothing to change.
SweepFairness ==
    ([]<>SweepChangesNothing) \/ ([]<><<scheduledHandler>>_vars)

\* The cron trigger fires the sweep again and again.
FairSpec == Init /\ [][FaultNext]_vars /\ SweepFairness

\* The same handlers with a clock that advances and a cron trigger that
\* fires again and again.  The clock of the model stops at MaxTime steps, so
\* sessions are created while their expires_at is still before that.
LiveNext ==
    \/ \E body \in TrackBodies :
            /\ now + HourMs < MaxTime * ClockStep
            /\ createTrackingSession(body)
    \/ \E id \in 1..MaxSessions, trxid \in ConcRawTrxIDs : submitTrxID(id, trxid)
    \/ \E id \in 1..MaxSessions, trxid \in ConcRawTrxIDs :
            submitTrxID_throws(id, trxid)
    \/ \E body \in FaultWebhookBodies : handleWebhookSMS(body)
    \/ \E body \in FaultWebhookBodies : handleWebhookSMS_throws(body)
    \/ scheduledHandler
    \/ \E throwing \in SUBSET (1..MaxSessions) : scheduledHandler_throws(throwing)
    \/ Tick

LiveSpec == Init /\ [][LiveNext]_vars /\ SweepFairness /\ WF_vars(Tick)

-----------------------------------------------------------------------------
(* The state machine with an operator who edits receivers_table while the
   worker runs: a receiver is disabled, or a new one is added. *)

ReceiverWebhookBodies ==
    {[raw_sms |-> Some(GoodA), receiver_phone |-> ph] : ph \in {"R1", "R2", "RX"}}

\* UPDATE receivers_table SET status = 'disabled' WHERE phone = ?
disableReceiver(phone) ==
    /\ phone \in DOMAIN receivers_table
    /\ receivers_table[phone] = "active"
    /\ receivers_table' = [receivers_table EXCEPT ![phone] = "disabled"]
    /\ last' = [op |-> "disableReceiver", phone |-> phone]
    /\ UNCHANGED <<fulfilled, transactions_table, tracking_table, now, units>>

\* INSERT INTO receivers_table (phone, label) VALUES (?, ?): status 'active'
addReceiver(phone) ==
    /\ phone \notin DOMAIN receivers_table
    /\ receivers_table' = [p \in DOMAIN receivers_table \cup {phone} |->
                            IF p = phone THEN "active" ELSE receivers_table[p]]
    /\ last' = [op |-> "addReceiver", phone |-> phone]
    /\ UNCHANGED <<fulfilled, transactions_table, tracking_table, now, units>>

ReceiverNext ==
    \/ \E body \in TrackBodies : createTrackingSession(body)
    \/ \E id \in 1..MaxSessions, trxid \in ConcRawTrxIDs : submitTrxID(id, trxid)
    \/ \E body \in ReceiverWebhookBodies : handleWebhookSMS(body)
    \/ scheduledHandler
    \/ Tick
    \/ \E phone \in {"R1", "R2", "RX"} : disableReceiver(phone)
    \/ \E phone \in {"R1", "R2", "RX"} : addReceiver(phone)

ReceiverSpec == Init /\ [][ReceiverNext]_vars

-----------------------------------------------------------------------------
(* normalizeTrxID and verifyPayment on their own: the arguments are drawn at  *)
(* the start and the function is applied to them.                            *)

MaxLen == 3             \* characters of a reference typed or received

Chars == {" ", "a", "A", "b"}

Texts == UNION {[1..n -> Chars] : n \in 0..MaxLen}

\* Offsets from a bound of the time window, ms.
BoundaryOffsets == {0 - 1000, 0 - 1, 0, 1, 1000}

PureTimes ==
    {b + d : b \in {HourMs, 2 * HourMs, 3 * HourMs + GraceMs,
                    4 * HourMs + GraceMs},
             d \in BoundaryOffsets}

\* A row TrackingService.create made at created_at, with its reference.
PureSession(trxid, created_at) ==
    [tracking_id |-> 1, payment_amount_cents |-> 50000,
     offered_receivers |-> {"R1"}, user_entered_trxid |-> Some(trxid),
     status |-> "submitted_trx", matched_transaction_id |-> NULL,
     created_at |-> created_at, expires_at |-> created_at + HourMs,
     notes |-> NULL]

PureReceipt(trxid, amount_cents, receiver_phone, received_at) ==
    [id |-> 1, trxid |-> trxid, amount_cents |-> amount_cents,
     receiver_phone |-> receiver_phone, received_at |-> received_at]

PureSessions ==
    {PureSession(x, c) : x \in {<<"A">>, <<" ", "a">>},
                         c \in {2 * HourMs, 3 * HourMs}}

PureReceipts ==
    {PureReceipt(t, a, p, w) : t \in {<<"A">>, <<"B">>},
                               a \in {49999, 50000, 50001},
                               p \in {"R1", "R2"}, w \in PureTimes}

\* Another session, already verified against the receipt with reference A.
PureClaimed ==
    [tracking_id |-> 2, payment_amount_cents |-> 50000,
     offered_receivers |-> {"R1"}, user_entered_trxid |-> Some(<<"A">>),
     status |-> "verified", matched_transaction_id |-> Some(1),
     created_at |-> 2 * HourMs, expires_at |-> 3 * HourMs,
     notes |-> Some(<<"Verified successfully">>)]

PureInit ==
    /\ receivers_table = [p \in {"R1", "R2"} |->
                            IF p = "R1" THEN "active" ELSE "disabled"]
    /\ now = 0
    /\ units = [u \in 1..MaxUnits |-> Idle]
    /\ fulfilled = <<>>
    /\ \/ /\ transactions_table = <<>>
          /\ tracking_table = <<>>
          /\ \E x, y \in Texts :
                last = [op |-> "normalizeTrxID", args |-> <<x, y>>,
                        returned |-> NULL]
       \/ \E tracking \in PureSessions, transaction \in PureReceipts :
            /\ transactions_table = <<transaction>>
            /\ tracking_table \in {<<tracking>>, <<tracking, PureClaimed>>}
            /\ last = [op |-> "verifyPayment",
                       args |-> <<tracking, transaction>>, returned |-> NULL]

\* normalizeTrxID of each text and of the first's result, and rule 1 on the
\* two texts as a session's reference and a receipt's.
apply_normalizeTrxID ==
    /\ last.op = "normalizeTrxID"
    /\ last.returned = NULL
    /\ last' = [last EXCEPT !.returned =
            Some([x |-> normalizeTrxID(last.args[1]),
                  y |-> normalizeTrxID(last.args[2]),
                  xx |-> normalizeTrxID(normalizeTrxID(last.args[1])),
                  rule1 |-> verifyPayment(
                              PureSession(last.args[1], 2 * HourMs),
                              PureReceipt(last.args[2], 50000, "R1",
                                          2 * HourMs),
                              DB)])]
    /\ UNCHANGED <<receivers_table, fulfilled, transactions_table, tracking_table, now,
                   units>>

apply_verifyPayment ==
    /\ last.op = "verifyPayment"
    /\ last.returned = NULL
    /\ last' = [last EXCEPT !.returned =
            Some(verifyPayment(last.args[1], last.args[2], DB))]
    /\ LET after == execute(DB, verifyPayment_statements(last.args[1],
                                                         last.args[2], DB))
       IN  /\ tracking_table' = after.tracking
           /\ transactions_table' = after.transactions
    /\ UNCHANGED <<receivers_table, fulfilled, now, units>>

PureNext == apply_normalizeTrxID \/ apply_verifyPayment

PureSpec == PureInit /\ [][PureNext]_vars

-----------------------------------------------------------------------------
(* Properties *)

Sessions == 1..Len(tracking_table)
Receipts == 1..Len(transactions_table)

\* Rules 1 to 4 of verifyPayment alone: with no session to consult, rule 5 passes.
PassesRules1to4(tracking, transaction) ==
    verifyPayment(tracking, transaction,
                  [tracking |-> <<>>, transactions |-> <<>>]).success

DuplicateNote(other) ==
    Some(<<"Duplicate TrxID: already matched to session", other>>)

\* C1: every receipt is the matched transaction of at most one session whose
\* status is 'verified'.
C1_Exclusivity ==
    \A r \in Receipts :
        Cardinality({s \in Sessions :
            /\ tracking_table[s].status = "verified"
            /\ tracking_table[s].matched_transaction_id =
                    Some(transactions_table[r].id)}) <= 1

\* C2: when the webhook resolves a receipt for two sessions that are both
\* 'submitted_trx' with its reference and both pass rules 1 to 4, one of them
\* ends 'verified' and the other 'failed' with a duplicate-TrxID note.
C2_ExactlyOneVerified ==
    [][\A s1, s2 \in Sessions :
        ( /\ s1 # s2
          /\ tracking_table[s1].status = "submitted_trx"
          /\ tracking_table[s2].status = "submitted_trx"
          /\ tracking_table[s1].user_entered_trxid =
                tracking_table[s2].user_entered_trxid
          /\ last'.op = "webhook"
          /\ last'.transaction # NULL
          /\ Some(Get(last'.transaction).trxid) =
                tracking_table[s1].user_entered_trxid
          /\ PassesRules1to4(tracking_table[s1], Get(last'.transaction))
          /\ PassesRules1to4(tracking_table[s2], Get(last'.transaction)) )
        => \E w, l \in {s1, s2} :
              /\ w # l
              /\ tracking_table'[w].status = "verified"
              /\ tracking_table'[l].status = "failed"
              /\ tracking_table'[l].notes = DuplicateNote(w)
      ]_vars

\* C3: a session that submits the reference of a receipt another session is
\* verified against, and passes rules 1 to 4 for it, ends 'failed' with a
\* duplicate-TrxID note naming that session.
C3_LaterSubmitRejected ==
    [][\A s1, s2 \in Sessions : \A r \in Receipts :
        ( /\ s1 # s2
          /\ tracking_table[s1].status = "verified"
          /\ tracking_table[s1].matched_transaction_id =
                Some(transactions_table[r].id)
          /\ last'.op = "submit"
          /\ last'.tracking_id = s2
          /\ last'.verification # "none"
          /\ tracking_table'[s2].user_entered_trxid =
                Some(transactions_table[r].trxid)
          /\ PassesRules1to4(
                [tracking_table[s2] EXCEPT
                    !.user_entered_trxid = Some(transactions_table[r].trxid)],
                transactions_table[r]) )
        => /\ tracking_table'[s2].status = "failed"
           /\ tracking_table'[s2].notes = DuplicateNote(s1)
      ]_vars

\* C4: for a 'verified' session, attemptVerification returns 'verified' and
\* issues no UPDATE, and verifyIncomingTransaction on its receipt issues no
\* UPDATE for it: status, matched_transaction_id and notes stay as they are.
\* (No handler calls triggerFulfillment of services/fulfillment.ts, so no step
\* of the model fulfils.)
C4_Monotonic ==
    \A s \in Sessions :
        tracking_table[s].status = "verified" =>
            LET av == attemptVerification(tracking_table[s].tracking_id, DB)
            IN  /\ av.writes = <<>>
                /\ av.tracking = tracking_table
                /\ av.result.status = "verified"
                /\ av.result.matched_transaction_id =
                        tracking_table[s].matched_transaction_id
                /\ \A r \in Receipts :
                    Some(transactions_table[r].id) =
                        tracking_table[s].matched_transaction_id =>
                    LET v == verifyIncomingTransaction(
                                transactions_table[r].id, DB)
                    IN  /\ v.tracking[s] = tracking_table[s]
                        /\ \A i \in 1..Len(v.writes) :
                            v.writes[i].tracking_id #
                                tracking_table[s].tracking_id

\* A second delivery of its receipt has just run verifyIncomingTransaction
\* while the session is 'verified'.
C4_Witness ==
    \E s \in Sessions :
        /\ tracking_table[s].status = "verified"
        /\ last.op = "webhook"
        /\ ~last.is_new
        /\ last.transaction # NULL
        /\ tracking_table[s].matched_transaction_id =
                Some(Get(last.transaction).id)

\* C6: in every state, interleaved ones included, a session has a
\* matched_transaction_id exactly when its status is 'verified'.
C6_MatchedIffVerified ==
    \A s \in Sessions :
        tracking_table[s].matched_transaction_id # NULL
            <=> tracking_table[s].status = "verified"

Terminal == {"verified", "failed", "expired", "canceled"}

\* C5: a session whose status is 'verified', 'failed', 'expired' or 'canceled'
\* keeps that status in every later step.
C5_TerminalAbsorbing ==
    [][\A s \in Sessions :
        tracking_table[s].status \in Terminal =>
            tracking_table'[s].status = tracking_table[s].status]_vars

\* C7: a session that is 'submitted_trx', 'verified' or 'failed' has a
\* user_entered_trxid.
C7_DeclaredHasTrxID ==
    \A s \in Sessions :
        tracking_table[s].status \in {"submitted_trx", "verified", "failed"} =>
            /\ tracking_table[s].user_entered_trxid # NULL
            /\ Get(tracking_table[s].user_entered_trxid) # <<>>

C7_Witness ==
    \E s1, s2 \in Sessions :
        /\ tracking_table[s1].status = "failed"
        /\ tracking_table[s2].status \in {"submitted_trx", "verified"}

\* C8: for a session with no user_entered_trxid, or with no stored receipt for
\* it, attemptVerification returns 'pending' and issues no UPDATE; a submit
\* whose verification was 'pending' leaves the session 'submitted_trx'.
C8_InconclusiveWritesNothing ==
    /\ \A s \in Sessions :
        LET t == tracking_table[s]
            av == attemptVerification(t.tracking_id, DB)
        IN  ( \/ t.user_entered_trxid = NULL
              \/ getByTrxID(transactions_table,
                            normalizeTrxID(Get(t.user_entered_trxid))) = NULL )
            => /\ av.result.status = "pending"
               /\ ~av.result.success
               /\ av.writes = <<>>
               /\ av.tracking = tracking_table
    /\ ( last.op = "submit" /\ last.verification = "pending" ) =>
            /\ tracking_table[last.tracking_id].status = "submitted_trx"
            /\ tracking_table[last.tracking_id].matched_transaction_id = NULL

\* A submit has just run attemptVerification with no receipt stored for the
\* reference.
C8_Witness ==
    /\ last.op = "submit"
    /\ last.verification = "pending"
    /\ getByTrxID(transactions_table,
                  Get(tracking_table[last.tracking_id].user_entered_trxid)) = NULL

\* The bodies the webhook accepts, with what it parses from them.
AcceptedBodies ==
    {b \in WebhookBodies :
        /\ b.raw_sms # NULL
        /\ isValidReceiver(receivers_table, b.receiver_phone)
        /\ parseBkashSMS(b.raw_sms).success}

ParsedTrxID(b) == Get(parseBkashSMS(b.raw_sms).data).trxid

RowsWithTrxID(tt, trxid) == {i \in 1..Len(tt) : tt[i].trxid = trxid}

\* C9: two deliveries of a reference that is not stored answer is_new true
\* then false, with the same transaction, and leave one row for the reference.
C9_IdempotentIngestion ==
    \A b1, b2 \in AcceptedBodies :
        ( /\ ParsedTrxID(b1) = ParsedTrxID(b2)
          /\ RowsWithTrxID(transactions_table, ParsedTrxID(b1)) = {} )
        => LET r1 == handleWebhookSMS_run(b1, receivers_table, DB)
               r2 == handleWebhookSMS_run(
                        b2, receivers_table,
                        [tracking |-> r1.tracking,
                         transactions |-> r1.transactions])
           IN  /\ r1.response.is_new /\ r1.response.code = 201
               /\ ~r2.response.is_new /\ r2.response.code = 200
               /\ r1.response.transaction # NULL
               /\ r2.response.transaction = r1.response.transaction
               /\ Cardinality(RowsWithTrxID(r2.transactions,
                                            ParsedTrxID(b1))) = 1

\* A delivery has just been answered is_new = false with the stored row.
C9_Witness ==
    /\ last.op = "webhook"
    /\ last.code = 200
    /\ ~last.is_new
    /\ last.transaction # NULL
    /\ Get(last.transaction) = transactions_table[Get(last.transaction).id]

\* C10: no two stored receipts share a trxid, and no step changes or removes a
\* stored receipt.
C10_ReceiptsUniqueImmutable ==
    /\ [](\A i, j \in Receipts :
            transactions_table[i].trxid = transactions_table[j].trxid => i = j)
    /\ [][/\ Len(transactions_table') >= Len(transactions_table)
          /\ \A i \in Receipts :
                transactions_table'[i] = transactions_table[i]]_vars

\* A delivery of a stored reference that carried another amount, receiver or
\* time has just been answered, with two receipts stored.
C10_Witness ==
    /\ last.op = "webhook"
    /\ ~last.is_new
    /\ last.transaction # NULL
    /\ Len(transactions_table) = 2
    /\ \/ Get(last.parsed_data).amount_cents #
            Get(last.transaction).amount_cents
       \/ Get(last.parsed_data).received_at #
            Get(last.transaction).received_at

\* C11: verifyPayment never answers 'verified' for a receipt whose amount_cents
\* differs from the session's payment_amount_cents, whatever the session's
\* reference, and no 'verified' session is matched to such a receipt.
C11_ExactAmount ==
    /\ \A s \in Sessions : \A r \in Receipts :
        tracking_table[s].payment_amount_cents #
            transactions_table[r].amount_cents
        => \A t \in {tracking_table[s],
                     [tracking_table[s] EXCEPT !.user_entered_trxid =
                        Some(transactions_table[r].trxid)]} :
            LET result == verifyPayment(t, transactions_table[r], DB)
            IN  /\ ~result.success
                /\ result.status = "failed"
                /\ result.matched_transaction_id = NULL
    /\ \A s \in Sessions : \A r \in Receipts :
        ( /\ tracking_table[s].status = "verified"
          /\ tracking_table[s].matched_transaction_id =
                Some(transactions_table[r].id) )
        => tracking_table[s].payment_amount_cents =
                transactions_table[r].amount_cents

\* A session has been failed for a receipt one cent above its amount.
C11_Witness ==
    \E s \in Sessions : \E r \in Receipts :
        /\ tracking_table[s].status = "failed"
        /\ tracking_table[s].notes =
                Some(<<"Amount mismatch",
                       tracking_table[s].payment_amount_cents,
                       transactions_table[r].amount_cents>>)
        /\ transactions_table[r].amount_cents =
                tracking_table[s].payment_amount_cents + 1
        /\ tracking_table[s].user_entered_trxid =
                Some(transactions_table[r].trxid)

\* Two texts are one reference when, between their first and last characters
\* that are not spaces, they have the same letters up to case.
Lower(c) == CASE c = "A" -> "a" [] c = "B" -> "b" [] OTHER -> c

Core(x) ==
    LET nonSpace == {i \in 1..Len(x) : x[i] # " "}
    IN  IF nonSpace = {} THEN <<>>
        ELSE SubSeq(x, CHOOSE i \in nonSpace : \A j \in nonSpace : i <= j,
                       CHOOSE i \in nonSpace : \A j \in nonSpace : i >= j)

SameReference(x, y) ==
    /\ Len(Core(x)) = Len(Core(y))
    /\ \A i \in 1..Len(Core(x)) : Lower(Core(x)[i]) = Lower(Core(y)[i])

\* C12: normalizeTrxID gives texts that differ only in case and surrounding
\* spaces the same value, normalizing twice is normalizing once, and rule 1 of
\* verifyPayment does not reject such a pair.
C12_Normalization ==
    ( last.op = "normalizeTrxID" /\ last.returned # NULL ) =>
        LET x == last.args[1]
            y == last.args[2]
            r == Get(last.returned)
        IN  /\ r.xx = r.x
            /\ SameReference(x, y) =>
                    /\ r.x = r.y
                    /\ r.rule1.failure_reason # Some(<<"TrxID mismatch">>)
                    /\ r.rule1.success

\* Two texts of different case and spacing have been normalized to one value.
C12_Witness ==
    /\ last.op = "normalizeTrxID"
    /\ last.returned # NULL
    /\ last.args[1] # last.args[2]
    /\ SameReference(last.args[1], last.args[2])
    /\ Len(last.args[1]) > Len(Core(last.args[1]))
    /\ \E i \in 1..Len(last.args[1]) : last.args[1][i] = "a"
    /\ Get(last.returned).x = Get(last.returned).y
    /\ Get(last.returned).x # last.args[1]

\* C13: with rules 1 to 3 satisfied, verifyPayment passes rule 4 exactly when
\* created_at - 1 h <= received_at <= expires_at + 15 min, and otherwise fails
\* with the time-window reason.
C13_WindowInclusive ==
    ( last.op = "verifyPayment" /\ last.returned # NULL ) =>
        LET tracking == last.args[1]
            transaction == last.args[2]
            result == Get(last.returned)
            earliest == tracking.created_at - 60 * 60 * 1000
            latest == tracking.expires_at + 15 * 60 * 1000
        IN  ( /\ SameReference(Get(tracking.user_entered_trxid),
                               transaction.trxid)
              /\ tracking.payment_amount_cents = transaction.amount_cents
              /\ transaction.receiver_phone \in tracking.offered_receivers )
            => IF /\ earliest <= transaction.received_at
                  /\ transaction.received_at <= latest
               THEN result.success /\ result.status = "verified"
               ELSE /\ ~result.success
                    /\ result.status = "failed"
                    /\ result.failure_reason =
                        Some(<<"Transaction time is outside window",
                               transaction.received_at, earliest, latest>>)

\* A receipt received exactly at expires_at + 15 min has passed.
C13_Witness ==
    /\ last.op = "verifyPayment"
    /\ last.returned # NULL
    /\ last.args[2].received_at = last.args[1].expires_at + 15 * 60 * 1000
    /\ Get(last.returned).success

\* C14: a submit on a fresh session stores the reference and, with no receipt
\* stored for it, leaves the session 'submitted_trx' with a 'pending' verdict;
\* a delivery of a receipt with the reference, the amount, an offered receiver
\* and a time in the window then leaves the session 'verified' and matched to
\* that receipt when the webhook answers.
C14_HappyPath ==
    [][\A s \in Sessions :
        /\ ( /\ tracking_table[s].status = "pending"
             /\ tracking_table[s].user_entered_trxid = NULL
             /\ last'.op = "submit"
             /\ last'.tracking_id = s
             /\ last'.code = 200 )
           => /\ tracking_table'[s].user_entered_trxid # NULL
              /\ getByTrxID(transactions_table,
                            Get(tracking_table'[s].user_entered_trxid)) = NULL
                 => /\ tracking_table'[s].status = "submitted_trx"
                    /\ tracking_table'[s].matched_transaction_id = NULL
                    /\ last'.verification = "pending"
                    /\ last'.status = "submitted"
        /\ ( /\ tracking_table[s].status = "submitted_trx"
             /\ last'.op = "webhook"
             /\ last'.transaction # NULL
             /\ tracking_table[s].user_entered_trxid =
                    Some(Get(last'.transaction).trxid)
             /\ tracking_table[s].payment_amount_cents =
                    Get(last'.transaction).amount_cents
             /\ Get(last'.transaction).receiver_phone \in
                    tracking_table[s].offered_receivers
             /\ Get(last'.transaction).received_at >=
                    tracking_table[s].created_at - HourMs
             /\ Get(last'.transaction).received_at <=
                    tracking_table[s].expires_at + GraceMs )
           => /\ tracking_table'[s].status = "verified"
              /\ tracking_table'[s].matched_transaction_id =
                    Some(Get(last'.transaction).id)
              /\ last'.verified >= 1
      ]_vars

\* The delivery of a new receipt has just verified a session that had
\* submitted its reference before the receipt existed.
C14_Witness ==
    /\ last.op = "webhook"
    /\ last.is_new
    /\ last.code = 201
    /\ last.verified = 1
    /\ \E s \in Sessions :
        /\ tracking_table[s].status = "verified"
        /\ tracking_table[s].matched_transaction_id =
                Some(Get(last.transaction).id)
        /\ tracking_table[s].user_entered_trxid =
                Some(Get(last.transaction).trxid)

\* The sessions a sweep finds declared, not past expires_at, and with no receipt
\* stored for their reference.
Waiting ==
    {s \in Sessions :
        /\ tracking_table[s].status = "submitted_trx"
        /\ tracking_table[s].user_entered_trxid # NULL
        /\ ~(tracking_table[s].expires_at < now)
        /\ getByTrxID(transactions_table,
                      normalizeTrxID(Get(tracking_table[s].user_entered_trxid)))
                = NULL}

\* C15: a sweep leaves every such session as it is and counts it in
\* still_pending, not in verified or failed.
C15_SweepLeavesWaiting ==
    [][last'.op = "cron" =>
        /\ \A s \in Waiting : tracking_table'[s] = tracking_table[s]
        /\ last'.still_pending = Cardinality(Waiting)
        /\ last'.verified + last'.failed + last'.still_pending =
                last'.total_processed
      ]_vars

\* A sweep at a declared session's expires_at has just counted it still pending.
C15_Witness ==
    /\ last.op = "cron"
    /\ last.still_pending >= 1
    /\ last.verified = 0
    /\ last.failed = 0
    /\ \E s \in Waiting : tracking_table[s].expires_at = now

\* C16: a sweep moves a 'pending' session whose expires_at has passed to
\* 'expired', and a submit on an 'expired' session is refused (410 'expired',
\* or 400 for a blank reference) and changes no row.
C16_ExpiredNotReopened ==
    [][\A s \in Sessions :
        /\ ( /\ last'.op = "cron"
             /\ tracking_table[s].status = "pending"
             /\ tracking_table[s].expires_at < now )
           => /\ tracking_table'[s] =
                    [tracking_table[s] EXCEPT !.status = "expired"]
              /\ last'.expired >= 1
        /\ ( /\ tracking_table[s].status = "expired"
             /\ last'.op = "submit"
             /\ last'.tracking_id = s )
           => /\ last'.code \in {400, 410}
              /\ last'.code = 410 => last'.status = "expired"
              /\ last'.verification = "none"
              /\ tracking_table' = tracking_table
      ]_vars

\* A submit on a session the sweep expired while 'pending' has just been
\* answered 410.
C16_Witness ==
    /\ last.op = "submit"
    /\ last.code = 410
    /\ tracking_table[last.tracking_id].status = "expired"
    /\ tracking_table[last.tracking_id].user_entered_trxid = NULL

\* The calls of triggerFulfillment made for a session.
FulfilledFor(log, tracking_id) ==
    Cardinality({i \in 1..Len(log) : log[i] = tracking_id})

\* C17: every step that moves a session into 'verified' calls
\* triggerFulfillment for it once, and a session is fulfilled only once.
C17_FulfilledOncePerVerification ==
    [][\A s \in Sessions :
        /\ ( /\ tracking_table[s].status # "verified"
             /\ tracking_table'[s].status = "verified" )
           => FulfilledFor(fulfilled', tracking_table[s].tracking_id) =
                FulfilledFor(fulfilled, tracking_table[s].tracking_id) + 1
        /\ FulfilledFor(fulfilled', tracking_table[s].tracking_id) <= 1
      ]_vars

\* C18: a step changes a session's row to 'verified', 'failed' or 'expired'
\* only when the row is 'pending' or 'submitted_trx' at that step.
C18_ConditionalWrites ==
    [][\A s \in Sessions :
        ( /\ tracking_table'[s] # tracking_table[s]
          /\ tracking_table'[s].status \in {"verified", "failed", "expired"} )
        => tracking_table[s].status \in {"pending", "submitted_trx"}
      ]_vars

\* The sessions the retry phase of a sweep selects: declared, and not expired by
\* the expiry phase of the same sweep.
Selected ==
    {s \in Sessions :
        /\ tracking_table[s].status = "submitted_trx"
        /\ tracking_table[s].user_entered_trxid # NULL
        /\ ~(tracking_table[s].expires_at < now)}

\* C19: when attemptVerification throws for some of the selected sessions, the
\* sweep still completes with its report; every erroring session keeps its row
\* and is counted as failed, and every other selected session gets its verdict
\* (unchanged without a stored receipt, 'verified' or 'failed' with one) and
\* is counted by it.
C19_SweepErrorIsolation ==
    [][last'.op = "cron" =>
        LET errored == last'.errored
            attempted == Selected \ errored
        IN  /\ errored \subseteq Selected
            /\ last'.total_processed = Cardinality(Selected)
            /\ \A s \in errored : tracking_table'[s] = tracking_table[s]
            /\ \A s \in attempted :
                    IF s \in Waiting
                    THEN tracking_table'[s] = tracking_table[s]
                    ELSE tracking_table'[s].status \in {"verified", "failed"}
            /\ last'.verified =
                    Cardinality({s \in attempted :
                                    tracking_table'[s].status = "verified"})
            /\ last'.failed =
                    Cardinality(errored)
                    + Cardinality({s \in attempted :
                                    tracking_table'[s].status = "failed"})
            /\ last'.still_pending = Cardinality(attempted \cap Waiting)
      ]_vars

\* A sweep in which attemptVerification threw for session 1 has just verified
\* session 2, the session after it.
C19_Witness ==
    /\ last.op = "cron"
    /\ last.errored = {1}
    /\ last.verified = 1
    /\ last.failed = 1
    /\ tracking_table[1].status = "submitted_trx"
    /\ tracking_table[2].status = "verified"

\* The stored receipts that satisfy rules 1 to 5 for session s: same reference,
\* same amount, an offered receiver, inside the window, and matched to no other
\* verified session.
PassingReceipts(s) ==
    LET tracking == tracking_table[s]
    IN  {i \in 1..Len(transactions_table) :
            LET transaction == transactions_table[i]
            IN  /\ tracking.user_entered_trxid # NULL
                /\ normalizeTrxID(transaction.trxid) =
                        normalizeTrxID(Get(tracking.user_entered_trxid))
                /\ transaction.amount_cents = tracking.payment_amount_cents
                /\ transaction.receiver_phone \in tracking.offered_receivers
                /\ transaction.received_at >= tracking.created_at - HourMs
                /\ transaction.received_at <= tracking.expires_at + GraceMs
                /\ \A o \in Sessions \ {s} :
                        ~ /\ tracking_table[o].status = "verified"
                          /\ tracking_table[o].matched_transaction_id =
                                Some(transaction.id)}

\* Session s is declared, a stored receipt passes for it, and neither the
\* submit nor the webhook has given it a verdict.
Unresolved(s) ==
    /\ s \in Sessions
    /\ tracking_table[s].status = "submitted_trx"
    /\ PassingReceipts(s) # {}

PastExpiry(s) == s \in Sessions /\ tracking_table[s].expires_at < now

Verified(s) == s \in Sessions /\ tracking_table[s].status = "verified"

C21_NoRuleLeakage ==
    ( /\ last.op = "submit"
      /\ last.verification \in {"pending", "failed"} )
    => /\ last.code = 200
       /\ last.body = [status |-> "submitted",
                       message |-> <<"Thank you! Your Transaction ID has been submitted">>]

\* A submit has just been rejected by rule 2 (the session is 'failed' with an
\* amount-mismatch note) and answered.
C21_Witness ==
    /\ last.op = "submit"
    /\ last.verification = "failed"
    /\ tracking_table[last.tracking_id].status = "failed"
    /\ tracking_table[last.tracking_id].notes # NULL
    /\ Get(tracking_table[last.tracking_id].notes)[1] = "Amount mismatch"

\* What makes an ingest request invalid: a required field of the request
\* missing, a receiver_phone outside the registry, an SMS without its amount,
\* sender, reference or time, or an amount not above zero.
InvalidIngest(body) ==
    \/ body.raw_sms = NULL
    \/ body.receiver_phone = ""
    \/ body.receiver_phone \notin DOMAIN receivers_table
    \/ LET sms == Get(body.raw_sms)
       IN  \/ sms.amount = NULL
           \/ sms.sender = NULL
           \/ sms.trxid = NULL
           \/ sms.timestamp = NULL
           \/ Get(sms.amount)[1] * 100 + Get(sms.amount)[2] <= 0

ReceiptFor(tt, t) ==
    tt[CHOOSE i \in 1..Len(tt) :
            normalizeTrxID(tt[i].trxid) = normalizeTrxID(Get(t.user_entered_trxid))]

\* C23: a session is created with the receivers active at that moment as its
\* offered_receivers, no step changes them, and a verdict follows the
\* session's own offered_receivers whatever receivers_table holds by then:
\* a receipt on an offered receiver is never refused for its receiver, a
\* receipt on any other receiver fails with the receiver note.
C23_ReceiverSnapshot ==
    [][/\ \A s \in Sessions :
            tracking_table'[s].offered_receivers =
                tracking_table[s].offered_receivers
       /\ (last'.op = "track" /\ last'.code = 201)
            => tracking_table'[Len(tracking_table')].offered_receivers =
                    {p \in DOMAIN receivers_table : receivers_table[p] = "active"}
       /\ \A s \in Sessions :
            ( /\ tracking_table[s].status \in {"pending", "submitted_trx"}
              /\ tracking_table'[s].status \in {"verified", "failed"} )
            => LET after == tracking_table'[s]
                   receipt == ReceiptFor(transactions_table', after)
               IN  IF receipt.receiver_phone
                        \in tracking_table[s].offered_receivers
                   THEN \/ /\ after.status = "verified"
                           /\ after.matched_transaction_id = Some(receipt.id)
                        \/ /\ after.status = "failed"
                           /\ Get(after.notes)[1] =
                                "Transaction time is outside window"
                   ELSE /\ after.status = "failed"
                        /\ Get(after.notes)[1] = "Receiver not in offered list"
      ]_vars

\* The webhook has just verified a session with a receipt sent to R1, which
\* the session offers and which has been disabled since.
C23_Witness ==
    /\ last.op = "webhook"
    /\ last.verified = 1
    /\ last.request.receiver_phone = "R1"
    /\ receivers_table["R1"] = "disabled"
    /\ \E s \in Sessions :
            /\ tracking_table[s].status = "verified"
            /\ "R1" \in tracking_table[s].offered_receivers

\* The sessions an ingestion of a receipt with this reference evaluates.
Awaiting(trxid) ==
    {s \in Sessions :
        /\ tracking_table[s].status \in {"pending", "submitted_trx"}
        /\ tracking_table[s].user_entered_trxid = Some(trxid)}

\* C24: a sweep or an ingestion leaves every 'failed' session's row as it is,
\* and does not count it among the sessions it processed or attempted (an
\* ingestion that finds no session awaiting reports its one "no pending
\* sessions" result).
C24_FailedNotRetried ==
    [][last'.op \in {"cron", "webhook"} =>
        /\ \A s \in Sessions :
                tracking_table[s].status = "failed"
                => tracking_table'[s] = tracking_table[s]
        /\ last'.op = "cron"
            => last'.total_processed = Cardinality(Selected)
        /\ (last'.op = "webhook" /\ last'.transaction # NULL)
            => LET awaiting == Awaiting(Get(last'.transaction).trxid)
               IN  last'.attempted =
                        IF awaiting = {} THEN 1 ELSE Cardinality(awaiting)
      ]_vars

\* The receipt that failed a session (its amount differs) has just been
\* delivered again: the webhook answered 200 and found no session awaiting.
C24_Witness ==
    /\ last.op = "webhook"
    /\ last.code = 200
    /\ last.attempted = 1
    /\ last.verified = 0
    /\ Awaiting(Get(last.transaction).trxid) = {}
    /\ \E s \in Sessions :
            /\ tracking_table[s].status = "failed"
            /\ tracking_table[s].user_entered_trxid =
                    Some(Get(last.transaction).trxid)
            /\ Get(tracking_table[s].notes)[1] = "Amount mismatch"

\* C25: every 'verified' session has a matched receipt with the session's
\* stored reference, its amount, a receiver it offers, and a time inside its
\* window.
C25_VerificationSoundness ==
    \A s \in Sessions :
        tracking_table[s].status = "verified"
        => \E i \in Receipts :
            LET tracking == tracking_table[s]
                receipt == transactions_table[i]
            IN  /\ tracking.matched_transaction_id = Some(receipt.id)
                /\ tracking.user_entered_trxid # NULL
                /\ normalizeTrxID(receipt.trxid) =
                        Get(tracking.user_entered_trxid)
                /\ receipt.amount_cents = tracking.payment_amount_cents
                /\ receipt.receiver_phone \in tracking.offered_receivers
                /\ receipt.received_at >= tracking.created_at - HourMs
                /\ receipt.received_at <= tracking.expires_at + GraceMs

\* The words each rule's failure_reason starts with, in the order of the rules.
RuleReasons ==
    <<"TrxID mismatch", "Amount mismatch", "Receiver not in offered list",
      "Transaction time is outside window",
      "Duplicate TrxID: already matched to session">>

\* Rule 5 as stated: no other session is 'verified' with this receipt's
\* reference.
exclusive(tracking, transaction, db) ==
    \A i \in 1..Len(db.tracking) :
        ~ /\ db.tracking[i].status = "verified"
          /\ db.tracking[i].tracking_id # tracking.tracking_id
          /\ db.tracking[i].user_entered_trxid =
                Some(normalizeTrxID(transaction.trxid))

\* The five rules on a session and a receipt, in the order of evaluation.
RulesHold(tracking, transaction, db) ==
    << tracking.user_entered_trxid # NULL
         /\ normalizeTrxID(Get(tracking.user_entered_trxid)) =
              normalizeTrxID(transaction.trxid),
       tracking.payment_amount_cents = transaction.amount_cents,
       transaction.receiver_phone \in tracking.offered_receivers,
       /\ transaction.received_at >= tracking.created_at - HourMs
       /\ transaction.received_at <= tracking.expires_at + GraceMs,
       exclusive(tracking, transaction, db) >>

\* C26: verifyPayment accepts exactly when the reference, amount, receiver,
\* time-window and exclusivity rules all hold, and otherwise reports the
\* failure reason of the first of them, in that order, that fails.
C26_RuleOrder ==
    (last.op = "verifyPayment" /\ last.returned # NULL) =>
        LET rules == RulesHold(last.args[1], last.args[2], DB)
            failing == {i \in 1..5 : ~rules[i]}
            result == Get(last.returned)
        IN  /\ result.success <=> failing = {}
            /\ failing # {} =>
                  /\ result.failure_reason # NULL
                  /\ Head(Get(result.failure_reason)) =
                        RuleReasons[CHOOSE i \in failing :
                                      \A j \in failing : i <= j]

\* The row a verdict on session s and receipt t leaves: 'verified' with the
\* receipt when rules 1 to 4 hold, else 'failed' with the first failing
\* rule's reason in notes.
VerdictApplied(before, after, t) ==
    LET rules == RulesHold(before, t, DB)
        failing == {i \in 1..4 : ~rules[i]}
    IN  IF failing = {}
        THEN /\ after.status = "verified"
             /\ after.matched_transaction_id = Some(t.id)
        ELSE /\ after.status = "failed"
             /\ after.matched_transaction_id = before.matched_transaction_id
             /\ after.notes # NULL
             /\ Head(Get(after.notes)) =
                    RuleReasons[CHOOSE i \in failing : \A j \in failing : i <= j]

\* C27: an ingestion evaluates every session that awaits the receipt's
\* reference ('pending' or 'submitted_trx' with that reference), reports one
\* result for each, and writes each session's own verdict, verified or failed,
\* to its row; the sessions that do not await it keep their rows.
C27_AllAwaitingAttempted ==
    [][(last'.op = "webhook" /\ last'.transaction # NULL) =>
        LET t == Get(last'.transaction)
            awaiting == Awaiting(t.trxid)
        IN  /\ awaiting # {} => last'.attempted = Cardinality(awaiting)
            /\ \A s \in awaiting :
                    VerdictApplied(tracking_table[s], tracking_table'[s], t)
            /\ last'.verified =
                    Cardinality({s \in awaiting :
                                    tracking_table'[s].status = "verified"})
            /\ \A s \in Sessions \ awaiting :
                    tracking_table'[s] = tracking_table[s]
      ]_vars

\* One ingestion has resolved two sessions that declared its reference: the
\* one whose window holds the receipt is verified, the other has failed on the
\* time window.
C27_Witness ==
    /\ last.op = "webhook"
    /\ last.attempted = 2
    /\ last.verified = 1
    /\ \E s1, s2 \in Sessions :
            /\ tracking_table[s1].status = "verified"
            /\ tracking_table[s1].matched_transaction_id =
                    Some(Get(last.transaction).id)
            /\ tracking_table[s2].status = "failed"
            /\ tracking_table[s2].user_entered_trxid =
                    tracking_table[s1].user_entered_trxid
            /\ Get(tracking_table[s2].notes)[1] =
                    "Transaction time is outside window"

\* All five rules hold for the session row and the receipt.
AllRulesHold(tracking, t) ==
    \A i \in 1..5 : RulesHold(tracking, t, DB)[i]

\* The row of a session resolved against receipt t.
VerifiedWith(row, t) ==
    /\ row.status = "verified"
    /\ row.matched_transaction_id = Some(t.id)
    /\ row.notes = Some(<<"Verified successfully">>)

\* C28: a session and a receipt that satisfy rules 1 to 5 end 'verified' with
\* that receipt in either order of arrival.  Submit first: the ingestion of
\* the receipt resolves the declared session.  Receipt first: the accepted
\* submission of its reference on the fresh session resolves it at once.  The
\* row is the same in both orders.
C28_OrderIndependence ==
    [][/\ (last'.op = "webhook" /\ last'.transaction # NULL) =>
            LET t == Get(last'.transaction)
            IN  \A s \in Sessions :
                    ( /\ tracking_table[s].status = "submitted_trx"
                      /\ AllRulesHold(tracking_table[s], t) )
                    => /\ VerifiedWith(tracking_table'[s], t)
                       /\ tracking_table'[s] =
                            [tracking_table[s] EXCEPT
                                !.status = "verified",
                                !.matched_transaction_id = Some(t.id),
                                !.notes = Some(<<"Verified successfully">>)]
       /\ (last'.op = "submit" /\ last'.code = 200) =>
            LET s == last'.tracking_id
            IN  ( /\ s \in Sessions
                  /\ tracking_table[s].status = "pending"
                  /\ tracking_table[s].user_entered_trxid = NULL
                  /\ tracking_table'[s].user_entered_trxid # NULL )
                => \A i \in Receipts :
                    LET declared == [tracking_table[s] EXCEPT
                                        !.status = "submitted_trx",
                                        !.user_entered_trxid =
                                            tracking_table'[s].user_entered_trxid]
                        t == transactions_table[i]
                    IN  AllRulesHold(declared, t)
                        => /\ VerifiedWith(tracking_table'[s], t)
                           /\ tracking_table'[s] =
                                [declared EXCEPT
                                    !.status = "verified",
                                    !.matched_transaction_id = Some(t.id),
                                    !.notes = Some(<<"Verified successfully">>)]
      ]_vars

\* The receipt came first: the submission of its reference has just been
\* answered 'verified', and the session holds the stored receipt.
C28_Witness ==
    /\ last.op = "submit"
    /\ last.code = 200
    /\ last.verification = "verified"
    /\ last.tracking_id \in Sessions
    /\ \E i \in Receipts :
            /\ VerifiedWith(tracking_table[last.tracking_id],
                            transactions_table[i])
            /\ AllRulesHold([tracking_table[last.tracking_id] EXCEPT
                                !.status = "submitted_trx"],
                            transactions_table[i])

\* The sessions the expiry phase of a sweep run now would select.
Expiring ==
    {s \in Sessions :
        /\ tracking_table[s].status \in {"pending", "submitted_trx"}
        /\ tracking_table[s].expires_at < now}

\* C29: a sweep sets to 'expired' exactly the 'pending' and 'submitted_trx'
\* sessions whose expires_at is before now, and reports their number.  It
\* changes nothing else of their rows (no verdict, no note, no matched
\* receipt, whatever receipt is stored).  A session at or before its
\* expires_at does not become 'expired', and a 'verified', 'failed',
\* 'expired' or 'canceled' session keeps its row.
C29_ExpiryPhase ==
    [][last'.op = "cron" =>
        /\ last'.expired = Cardinality(Expiring)
        /\ \A s \in Expiring :
                tracking_table'[s] =
                    [tracking_table[s] EXCEPT !.status = "expired"]
        /\ \A s \in Sessions \ Expiring :
                /\ tracking_table[s].status # "expired"
                    => tracking_table'[s].status # "expired"
                /\ tracking_table[s].status
                        \in {"verified", "failed", "expired", "canceled"}
                    => tracking_table'[s] = tracking_table[s]
      ]_vars

\* A sweep has just expired a declared session for which a passing receipt is
\* stored, without a verdict, while a session exactly at its expires_at is
\* still open.
C29_Witness ==
    /\ last.op = "cron"
    /\ last.expired = 1
    /\ \E s, o \in Sessions :
            /\ tracking_table[s].status = "expired"
            /\ tracking_table[s].expires_at < now
            /\ PassingReceipts(s) # {}
            /\ tracking_table[s].matched_transaction_id = NULL
            /\ tracking_table[s].notes = NULL
            /\ tracking_table[o].status \in {"pending", "submitted_trx"}
            /\ tracking_table[o].expires_at = now

C31_RetryOnResubmission ==
    [][(last'.op = "submit" /\ last'.code = 200) =>
        \A s \in Sessions :
            (s = last'.tracking_id /\ Unresolved(s))
            => /\ last'.verification # "none"
               /\ tracking_table'[s].status \in {"verified", "failed"}
      ]_vars

\* C32: a call of verifyPayment leaves the session store and the receipt store
\* as they were, whatever its verdict: the session it accepted is not yet
\* 'verified' and the one it rejected not yet 'failed'.
C32_VerifyPaymentNoWrite ==
    [][(last.op = "verifyPayment" /\ last.returned = NULL
            /\ last'.returned # NULL) =>
        /\ tracking_table' = tracking_table
        /\ transactions_table' = transactions_table
        /\ tracking_table'[1].status = "submitted_trx"
      ]_vars

\* verifyPayment has returned 'verified' for the stored session, which is
\* still 'submitted_trx' with no matched receipt.
C32_Witness ==
    /\ last.op = "verifyPayment"
    /\ last.returned # NULL
    /\ Get(last.returned).success
    /\ tracking_table[1] = last.args[1]
    /\ tracking_table[1].status = "submitted_trx"
    /\ tracking_table[1].matched_transaction_id = NULL
    /\ transactions_table = <<last.args[2]>>

NonTerminal(s) ==
    s \in Sessions /\ tracking_table[s].status \in {"pending", "submitted_trx"}

Resolved(s) ==
    s \in Sessions
    /\ tracking_table[s].status \in {"verified", "failed", "expired"}

\* C33: with the clock advancing and the sweep firing again and again, every
\* session that is 'pending' or 'submitted_trx' is eventually 'verified',
\* 'failed' or 'expired'.
C33_EventuallyTerminal ==
    \A s \in 1..MaxSessions : NonTerminal(s) ~> Resolved(s)

\* A sweep has just expired a session that never declared a reference.
C33_Witness ==
    /\ last.op = "cron"
    /\ last.expired >= 1
    /\ \E s \in Sessions :
            /\ tracking_table[s].status = "expired"
            /\ tracking_table[s].user_entered_trxid = NULL
            /\ tracking_table[s].expires_at < now

\* C34: every session expires exactly one hour after its creation, a new row
\* is created at the current time, and no step changes a stored session's
\* created_at, expires_at or payment_amount_cents.
C34_WindowFixed ==
    /\ [](\A s \in Sessions :
            tracking_table[s].expires_at = tracking_table[s].created_at + HourMs)
    /\ [][/\ Len(tracking_table') >= Len(tracking_table)
          /\ \A s \in Sessions :
                /\ tracking_table'[s].created_at = tracking_table[s].created_at
                /\ tracking_table'[s].expires_at = tracking_table[s].expires_at
                /\ tracking_table'[s].payment_amount_cents =
                        tracking_table[s].payment_amount_cents
          /\ \A s \in (1..Len(tracking_table')) \ Sessions :
                tracking_table'[s].created_at = now
         ]_vars

\* A session created after the first clock step has been verified, another
\* has been expired; both still have the window of their creation.
C34_Witness ==
    \E s, o \in Sessions :
        /\ tracking_table[s].status = "verified"
        /\ tracking_table[s].created_at = HourMs
        /\ tracking_table[s].expires_at = 2 * HourMs
        /\ tracking_table[s].payment_amount_cents = 50000
        /\ tracking_table[o].status = "expired"
        /\ tracking_table[o].user_entered_trxid # NULL
        /\ tracking_table[o].created_at = 0
        /\ tracking_table[o].expires_at = HourMs

\* C35: once the submit and the webhook units have all finished, no session is
\* left 'submitted_trx' while a receipt with its reference is stored: the
\* submit's lookup or the webhook's has evaluated the pair.
C35_NoLostMatch ==
    (\A u \in 1..MaxUnits : units[u] = Idle) =>
        \A s \in Sessions, i \in Receipts :
            ~ /\ tracking_table[s].status = "submitted_trx"
              /\ tracking_table[s].user_entered_trxid =
                    Some(normalizeTrxID(transactions_table[i].trxid))

\* The submit found no receipt; the webhook that stored it afterwards has
\* finished last and has verified the session.
C35_Witness ==
    /\ \A u \in 1..MaxUnits : units[u] = Idle
    /\ last.op = "webhook"
    /\ last.attempted = 1
    /\ last.verified = 1
    /\ \E s \in Sessions :
            /\ tracking_table[s].status = "verified"
            /\ tracking_table[s].matched_transaction_id =
                    Some(Get(last.transaction).id)

\* C36: a sweep expires a 'submitted_trx' session whose expires_at is before
\* now and does not attempt it, also when a stored receipt passes for it: the
\* session ends the sweep 'expired' with no matched receipt, it is not among
\* the sessions the sweep processed, and no session the sweep expired is
\* 'verified' after it.
C36_ExpiryBeforeRetry ==
    [][last'.op = "cron" =>
        /\ \A s \in Sessions :
                (Unresolved(s) /\ PastExpiry(s))
                => /\ tracking_table'[s].status = "expired"
                   /\ tracking_table'[s].matched_transaction_id = NULL
                   /\ tracking_table'[s].notes = tracking_table[s].notes
        /\ \A s \in Expiring : tracking_table'[s].status # "verified"
        /\ last'.total_processed = Cardinality(Selected)
        /\ last'.verified <= Cardinality(Selected \ Expiring)
      ]_vars

\* A sweep has just expired a declared session although the stored receipt,
\* dated after its expires_at and inside the grace, passes for it.
C36_Witness ==
    /\ last.op = "cron"
    /\ last.expired >= 1
    /\ last.verified = 0
    /\ \E s \in Sessions :
            /\ tracking_table[s].status = "expired"
            /\ tracking_table[s].matched_transaction_id = NULL
            /\ \E i \in PassingReceipts(s) :
                    /\ transactions_table[i].received_at
                            > tracking_table[s].expires_at
                    /\ transactions_table[i].received_at
                            <= tracking_table[s].expires_at + GraceMs

\* C37: a 'pending' session has no reference, no matched receipt and no notes.
C37_PendingIsBlank ==
    \A s \in Sessions :
        tracking_table[s].status = "pending"
        => /\ tracking_table[s].user_entered_trxid = NULL
           /\ tracking_table[s].matched_transaction_id = NULL
           /\ tracking_table[s].notes = NULL

\* A submission of a blank reference has just been refused for a session,
\* which is 'pending' and blank, while another session has its reference.
C37_Witness ==
    /\ last.op = "submit"
    /\ last.code = 400
    /\ last.tracking_id \in Sessions
    /\ tracking_table[last.tracking_id].status = "pending"
    /\ tracking_table[last.tracking_id].user_entered_trxid = NULL
    /\ \E o \in Sessions :
            /\ tracking_table[o].status # "pending"
            /\ tracking_table[o].user_entered_trxid # NULL

\* C38: the report of a sweep counts every session selected for retry exactly
\* once: verified + failed + still_pending is the number of 'submitted_trx'
\* sessions with a reference left after the expiry phase, which is also
\* total_processed, and the sessions whose attempt threw are among the failed.
C38_SweepAccounting ==
    [][last'.op = "cron" =>
        /\ last'.verified + last'.failed + last'.still_pending
                = Cardinality(Selected)
        /\ last'.total_processed
                = last'.verified + last'.failed + last'.still_pending
        /\ last'.failed >= Cardinality(last'.errored)
        /\ last'.failed - Cardinality(last'.errored)
                = Cardinality({s \in Selected \ last'.errored :
                                tracking_table'[s].status = "failed"})
      ]_vars

\* A sweep over two selected sessions: the attempt threw for one, the other
\* has no receipt yet.
C38_Witness ==
    /\ last.op = "cron"
    /\ last.total_processed = 2
    /\ last.verified = 0
    /\ last.failed = 1
    /\ last.still_pending = 1
    /\ Cardinality(last.errored) = 1

====
